---------------------------- MODULE Spec2Model ----------------------------
(***************************************************************************)
(* Model of kivy_garden.graph (src/kivy_garden/graph/__init__.py).         *)
(*                                                                         *)
(* Numbers.  Python floats are modelled by exact rationals <<n, d>> with   *)
(* d > 0 and gcd(n, d) = 1.  A value the tick generator returns is a       *)
(* triple <<n, d, lg>>: with lg = 0 it is the rational n/d, with lg = 1 it *)
(* is the real number log10(n/d), kept symbolic because it is irrational.  *)
(* log10 of a power of ten is the integer exponent, <<e, 1, 0>>.           *)
(***************************************************************************)
EXTENDS Integers, Sequences, FiniteSets, TLC

(***************************************************************************)
(* Bounds of the model.                                                    *)
(***************************************************************************)
\* range endpoints of numeric tick specs are k/2 for k in -2..MaxCoord
MaxCoord == 6
\* numeric major values are k/2 for k in -1..MaxMajor
MaxMajor == 4
\* numeric minor values are -1..MaxMinor
MaxMinor == 3
\* explicit tick lists have at most MaxListLen elements
MaxListLen == 2
\* the bounds of a log axis of a plot are 10 ** e for e in -1..MaxDecade
MaxDecade == 2
\* a graph gets at most MaxAxes secondary x axes
MaxAxes == 2
\* the plots drawn have 0..MaxPoints points, or about as many as one mesh
\* can index
MaxPoints == 3
\* BarPlot.draw: the indices one mesh supports, and the bars they allow
MaxIndices == 65535
MaxBars == 10922

(***************************************************************************)
(* Exact rational arithmetic (the arithmetic of the float expressions).    *)
(***************************************************************************)
Abs(i) == IF i < 0 THEN -i ELSE i

RECURSIVE GCD(_, _)
GCD(a, b) == IF b = 0 THEN a ELSE GCD(b, a % b)

\* the rational n/d in lowest terms, d # 0
Rat(n, d) ==
    LET g == GCD(Abs(n), Abs(d))
        s == IF d < 0 THEN -1 ELSE 1
    IN  <<(s * n) \div g, (s * d) \div g>>

RInt(i) == <<i, 1>>
RAdd(p, q) == Rat(p[1] * q[2] + q[1] * p[2], p[2] * q[2])
RSub(p, q) == Rat(p[1] * q[2] - q[1] * p[2], p[2] * q[2])
RMul(p, q) ==
    LET g1 == GCD(Abs(p[1]), q[2])
        g2 == GCD(Abs(q[1]), p[2])
    IN  <<(p[1] \div g1) * (q[1] \div g2), (p[2] \div g2) * (q[2] \div g1)>>
RDiv(p, q) == IF q[1] < 0 THEN RMul(p, <<-q[2], -q[1]>>) ELSE RMul(p, <<q[2], q[1]>>)
RLt(p, q) == p[1] * q[2] < q[1] * p[2]
RLe(p, q) == p[1] * q[2] <= q[1] * p[2]
RAbs(p) == <<Abs(p[1]), p[2]>>
\* math.floor and math.ceil: integers
RFloor(p) == p[1] \div p[2]
RCeil(p) == -((-p[1]) \div p[2])

RECURSIVE IntPow10(_)
IntPow10(e) == IF e = 0 THEN 1 ELSE 10 * IntPow10(e - 1)

\* 10 ** e for an integer e
Pow10(e) == IF e >= 0 THEN <<IntPow10(e), 1>> ELSE <<1, IntPow10(-e)>>

\* floor(log10(r)) for r > 0: the e with 10^e <= r < 10^(e+1)
RECURSIVE FloorLog10From(_, _)
FloorLog10From(r, e) ==
    IF RLt(r, Pow10(e)) THEN FloorLog10From(r, e - 1)
    ELSE IF RLe(Pow10(e + 1), r) THEN FloorLog10From(r, e + 1)
    ELSE e
FloorLog10(r) == FloorLog10From(r, 0)

(***************************************************************************)
(* Tick values: <<n, d, lg>>.                                              *)
(***************************************************************************)
Lin(r) == <<r[1], r[2], 0>>
Zero == <<0, 1, 0>>

\* math.log10(r) for r > 0
Log10(r) ==
    LET e == FloorLog10(r)
    IN  IF r = Pow10(e) THEN <<e, 1, 0>> ELSE <<r[1], r[2], 1>>

\* 10 ** v of a value of log space (an integer or a symbolic log10)
Antilog(v) == IF v[3] = 1 THEN <<v[1], v[2]>> ELSE Pow10(v[1])

\* v < w on floats
VLt(v, w) ==
    IF v[3] = 0 /\ w[3] = 0 THEN RLt(<<v[1], v[2]>>, <<w[1], w[2]>>)
    ELSE RLt(Antilog(v), Antilog(w))

(***************************************************************************)
(* Python list helpers.                                                    *)
(***************************************************************************)
\* [0] * n   ([] when n <= 0)
Zeros(n) == [i \in 1..(IF n > 0 THEN n ELSE 0) |-> Zero]

\* del s[k:]
DelFrom(s, k) == SubSeq(s, 1, IF k < Len(s) THEN k ELSE Len(s))

\* p in s
Contains(s, p) == \E i \in 1..Len(s) : s[i] = p

\* (faulty variant of Before) the reverse flag is dropped: always ascending
BeforeAscending(v, w, rev) == VLt(v, w)

\* v goes before w in sorted(..., reverse=rev)
Before(v, w, rev) == IF rev THEN VLt(w, v) ELSE VLt(v, w)

\* insert v into the sorted sequence s, after the elements equal to it (stable)
RECURSIVE InsertSorted(_, _, _)
InsertSorted(v, s, rev) ==
    IF s = <<>> THEN <<v>>
    ELSE IF Before(v, Head(s), rev) THEN <<v>> \o s
    ELSE <<Head(s)>> \o InsertSorted(v, Tail(s), rev)

RECURSIVE SortFrom(_, _, _, _)
SortFrom(s, i, acc, rev) ==
    IF i > Len(s) THEN acc ELSE SortFrom(s, i + 1, InsertSorted(s[i], acc, rev), rev)

\* sorted(s, reverse=rev)
Sorted(s, rev) == SortFrom(s, 1, <<>>, rev)

(***************************************************************************)
(* Graph._get_ticks.  A tick spec (major or minor) is a record             *)
(* [isList, num, list]: a number (num) or a list/tuple of numbers (list).  *)
(* The outcome of a call is [major, minor, raised]: the two returned lists *)
(* and the exception that left the call ("none" when it returned).         *)
(***************************************************************************)
NumSpec(r) == [isList |-> FALSE, num |-> r, list |-> <<>>]
ListSpec(s) == [isList |-> TRUE, num |-> <<0, 1>>, list |-> s]

Returned(pm, pn) == [major |-> pm, minor |-> pn, raised |-> "none"]
Raised(e) == [major |-> <<>>, minor |-> <<>>, raised |-> e]

\* (faulty variant of EffectiveMinor) a minor of the other kind is kept as it is
EffectiveMinorUnchanged(major, minor) == minor

\* line 406-407: a number with a list, or a list with a number: minor becomes
\* type(major)(), the empty list or the number 0
EffectiveMinor(major, minor) ==
    IF major.isList # minor.isList
    THEN (IF major.isList THEN ListSpec(<<>>) ELSE NumSpec(<<0, 1>>))
    ELSE minor

\* (faulty variant of InRange) only the ascending range is tested
InRangeAscendingOnly(p, s_min, s_max) == RLe(s_min, p) /\ RLe(p, s_max)

\* (faulty variant of InRange) the ends of the range are excluded
InRangeExclusive(p, s_min, s_max) ==
    \/ RLt(s_min, p) /\ RLt(p, s_max)
    \/ RLt(s_max, p) /\ RLt(p, s_min)

\* s_min <= p <= s_max or s_min >= p >= s_max
InRange(p, s_min, s_max) ==
    \/ RLe(s_min, p) /\ RLe(p, s_max)
    \/ RLe(s_max, p) /\ RLe(p, s_min)

\* lines 411-415: explicit tick lists (math.log10 of a number <= 0 raises
\* ValueError)
TicksFromLists(major, minor, log, s_min, s_max) ==
    LET pm == SelectSeq(major, LAMBDA p : InRange(p, s_min, s_max))
        pn == SelectSeq(minor, LAMBDA p : InRange(p, s_min, s_max) /\ ~Contains(pm, p))
    IN  IF log
        THEN IF \E i \in 1..Len(pm) : pm[i][1] <= 0 THEN Raised("ValueError")
             ELSE IF \E i \in 1..Len(pn) : pn[i][1] <= 0 THEN Raised("ValueError")
             ELSE Returned([i \in 1..Len(pm) |-> Log10(pm[i])],
                           [i \in 1..Len(pn) |-> Log10(pn[i])])
        ELSE Returned([i \in 1..Len(pm) |-> Lin(pm[i])],
                      [i \in 1..Len(pn) |-> Lin(pn[i])])

\* lines 495-501: the loop over m of the linear branch; an index past the end
\* of a preallocated list raises IndexError
RECURSIVE LinearLoop(_, _, _, _, _, _, _, _, _)
LinearLoop(m, n_ticks, minor, tick_dist, s_min, pm, k, pn, k2) ==
    IF m >= n_ticks THEN [pm |-> pm, k |-> k, pn |-> pn, k2 |-> k2, raised |-> "none"]
    ELSE LET pos == Lin(RAdd(RMul(RInt(m), tick_dist), s_min))
         IN  IF minor # 0 /\ m % minor # 0
             THEN IF k2 >= Len(pn)
                  THEN [pm |-> pm, k |-> k, pn |-> pn, k2 |-> k2, raised |-> "IndexError"]
                  ELSE LinearLoop(m + 1, n_ticks, minor, tick_dist, s_min,
                                  pm, k, [pn EXCEPT ![k2 + 1] = pos], k2 + 1)
             ELSE IF k >= Len(pm)
                  THEN [pm |-> pm, k |-> k, pn |-> pn, k2 |-> k2, raised |-> "IndexError"]
                  ELSE LinearLoop(m + 1, n_ticks, minor, tick_dist, s_min,
                                  [pm EXCEPT ![k + 1] = pos], k + 1, pn, k2)

\* (faulty variant of TickDist) the major distance is not divided by minor
TickDistUndivided(major, minor) == major

\* lines 441 and 487: major / float(minor if minor else 1.0), the distance
\* between two ticks (minor is an integer >= 0)
TickDist(major, minor) == RDiv(major, RInt(IF minor # 0 THEN minor ELSE 1))

\* lines 485-501 and 504-505: a numeric major, linear, s_max != s_min
\* (minor is an integer >= 0 here); dividing by a zero distance raises
TicksLinear(major, minor, s_min, s_max) ==
    IF major[1] = 0 THEN Raised("ZeroDivisionError")
    ELSE
    LET dist == TickDist(major, minor)
        n_ticks == RFloor(RAbs(RDiv(RSub(s_max, s_min), dist))) + 1
        tick_dist == RMul(RAbs(dist), RInt(IF RLt(s_min, s_max) THEN 1 ELSE -1))
        points_major == Zeros(RFloor(RAbs(RDiv(RSub(s_max, s_min), major))) + 1)
        points_minor == Zeros(n_ticks - Len(points_major) + 1)
        r == LinearLoop(0, n_ticks, minor, tick_dist, s_min,
                        points_major, 0, points_minor, 0)
    IN  IF r.raised # "none" THEN Raised(r.raised)
        ELSE Returned(DelFrom(r.pm, r.k), DelFrom(r.pn, r.k2))

\* (faulty variant of LogTickIsMajor) without subdivisions every tick is major
LogTickIsMajorUndivided(minor, count_min) == minor = 0 \/ count_min % minor = 0

\* line 478: minor and not count_min % minor
LogTickIsMajor(minor, count_min) == minor # 0 /\ count_min % minor = 0

\* lines 460-484: the while loop of the log branch.  s_max is the data value
\* of the upper end (pos_log > log10(s_max) is decided on the antilogs).
RECURSIVE LogLoop(_, _, _, _, _, _, _, _, _, _, _)
LogLoop(start_dec, decade_dist, minor, min_pos, s_max, count, count_min, pm, k, pn, k2) ==
    LET pos_dec == RAdd(start_dec, RMul(decade_dist, RInt(count)))
        pos_dec_low == RFloor(pos_dec)
        diff == RSub(pos_dec, RInt(pos_dec_low))
        zero == RLt(RAbs(diff), RMul(<<1, 1000>>, decade_dist))
        pos_log == IF zero THEN <<pos_dec_low, 1, 0>>
                   ELSE Log10(RMul(diff, Pow10(RCeil(pos_dec))))
    IN  IF VLt(Log10(s_max), pos_log)
        THEN [pm |-> pm, k |-> k, pn |-> pn, k2 |-> k2, raised |-> "none"]
        ELSE IF zero \/ RLe(min_pos, diff)
        THEN IF LogTickIsMajor(minor, count_min)
             THEN IF k >= Len(pm)
                  THEN [pm |-> pm, k |-> k, pn |-> pn, k2 |-> k2, raised |-> "IndexError"]
                  ELSE LogLoop(start_dec, decade_dist, minor, min_pos, s_max, count + 1,
                               count_min + 1, [pm EXCEPT ![k + 1] = pos_log], k + 1, pn, k2)
             ELSE IF k2 >= Len(pn)
                  THEN [pm |-> pm, k |-> k, pn |-> pn, k2 |-> k2, raised |-> "IndexError"]
                  ELSE LogLoop(start_dec, decade_dist, minor, min_pos, s_max, count + 1,
                               count_min + 1, pm, k, [pn EXCEPT ![k2 + 1] = pos_log], k2 + 1)
        ELSE LogLoop(start_dec, decade_dist, minor, min_pos, s_max, count + 1,
                     count_min + 1, pm, k, pn, k2)

\* lines 423-433: the number of decades between s_min and s_max (data values,
\* 0 < s_min < s_max), the last one counted by the fraction it covers
NDecades(s_min, s_max) ==
    LET whole == FloorLog10(RDiv(s_max, s_min))
        top == Pow10(FloorLog10(s_max) + 1)
    IN  IF FloorLog10(s_min) + whole # FloorLog10(s_max)
        THEN RSub(RInt(whole + 1),
                  RDiv(RSub(RMul(s_min, Pow10(whole + 1)), s_max), top))
        ELSE RAdd(RInt(whole),
                  RDiv(RSub(s_max, RMul(s_min, Pow10(whole))), top))

\* lines 418-484 and 504-505: a numeric major, log, s_max > s_min (minor is an
\* integer >= 0 here; s_min, s_max are the data values): log10(s_min) raises
\* ValueError for s_min <= 0, n_decades / float(major) raises for major = 0
TicksLog(major, minor, s_min, s_max) ==
    IF s_min[1] <= 0 THEN Raised("ValueError")
    ELSE IF major[1] = 0 THEN Raised("ZeroDivisionError")
    ELSE
    LET n_ticks_major == RDiv(NDecades(s_min, s_max), major)
        n_ticks == RFloor(RMul(n_ticks_major, RInt(IF minor >= 1 THEN minor ELSE 1))) + 2
        decade_dist == TickDist(major, minor)
        min_pos == RSub(<<1, 10>>, RMul(<<1, 100000>>, decade_dist))
        s_min_low == FloorLog10(s_min)
        start == RMul(RInt(RCeil(RDiv(RDiv(s_min, Pow10(s_min_low + 1)), decade_dist))),
                      decade_dist)
        count_min == IF minor = 0 THEN 0 ELSE RFloor(RDiv(start, decade_dist)) % minor
        start_dec == RAdd(start, RInt(s_min_low))
        r == LogLoop(start_dec, decade_dist, minor, min_pos, s_max, 0, count_min,
                     Zeros(n_ticks), 0, Zeros(n_ticks), 0)
    IN  IF r.raised # "none" THEN Raised(r.raised)
        ELSE Returned(DelFrom(r.pm, r.k), DelFrom(r.pn, r.k2))

\* (faulty variant of MajorPositive) zero passes the test
MajorNonNegative(major) == major[1] >= 0

\* line 416: elif major > 0
MajorPositive(major) == major[1] > 0

\* lines 416-505: the branches of a numeric major
TicksNumeric(major, minor, log, s_min, s_max) ==
    IF MajorPositive(major)
    THEN LET m == IF minor[1] > 0 THEN minor[1] ELSE 0
         IN  IF log /\ RLt(s_min, s_max) THEN TicksLog(major, m, s_min, s_max)
             ELSE IF ~log /\ s_max # s_min THEN TicksLinear(major, m, s_min, s_max)
             ELSE Returned(DelFrom(<<>>, 1), DelFrom(<<>>, 1))
    ELSE Returned(<<>>, <<>>)

\* (faulty variant of SortedResult) both lists through sorted(...)
SortedAscending(r, s_min, s_max) ==
    IF r.raised # "none" THEN r
    ELSE Returned(Sorted(r.major, FALSE), Sorted(r.minor, FALSE))

\* lines 506-507: both lists through sorted(..., reverse=s_min > s_max)
SortedResult(r, s_min, s_max) ==
    IF r.raised # "none" THEN r
    ELSE Returned(Sorted(r.major, RLt(s_max, s_min)), Sorted(r.minor, RLt(s_max, s_min)))

\* Graph._get_ticks(major, minor, log, s_min, s_max).  Iterating over a number
\* (line 412) and max(list, 0) (line 417) raise TypeError.
GetTicks(major, minor, log, s_min, s_max) ==
    LET mi == EffectiveMinor(major, minor)
    IN  IF major.isList
        THEN IF ~mi.isList THEN Raised("TypeError")
             ELSE SortedResult(TicksFromLists(major.list, mi.list, log, s_min, s_max),
                               s_min, s_max)
        ELSE IF mi.isList /\ MajorPositive(major.num) THEN Raised("TypeError")
             ELSE SortedResult(TicksNumeric(major.num, mi.num, log, s_min, s_max),
                               s_min, s_max)

(***************************************************************************)
(* Plot.x_px / y_px, Plot.unproject, Plot.get_px_bounds and                *)
(* Graph.to_data.  A data value is a triple: <<n, d, 0>> is the rational   *)
(* n/d and <<n, d, 2>> is 10 ** (n/d) for a fraction n/d that is no        *)
(* integer (an irrational value on a log axis).  The values of a log axis  *)
(* are the 10 ** q with q rational, so that log10 is exact.  Pixels are    *)
(* rationals.  The outcome of a call is [val, raised].                     *)
(***************************************************************************)
Value(v) == [val |-> v, raised |-> "none"]
Failed(e) == [val |-> <<0, 1>>, raised |-> e]

\* the rational a data value <<n, d, 0>> stands for
Rational(v) == <<v[1], v[2]>>

\* 10. ** q
Exp10(q) == IF q[2] = 1 THEN Lin(Pow10(q[1])) ELSE <<q[1], q[2], 2>>

\* log10(v) of a data value 10 ** q
Log10Of(v) == IF v[3] = 2 THEN <<v[1], v[2]>> ELSE RInt(FloorLog10(Rational(v)))

\* (faulty variant of funcx) the log flag is ignored
funcxIdentity(params, x) == Rational(x)

\* funcx() and funcy(), applied: log10 or the identity
funcx(params, x) == IF params.xlog THEN Log10Of(x) ELSE Rational(x)
funcy(params, y) == IF params.ylog THEN Log10Of(y) ELSE Rational(y)

\* p / q on floats
Divide(p, q) == IF q[1] = 0 THEN Failed("ZeroDivisionError") ELSE Value(RDiv(p, q))

\* (faulty variant of Ratio) the range is divided by without the test
RatioUnguarded(lo, hi, p0, p1) == Divide(RSub(p1, p0), RSub(hi, lo))

\* ratiox, ratioy: 0, and (p1 - p0) / range if the range is not zero
Ratio(lo, hi, p0, p1) ==
    IF RSub(hi, lo)[1] # 0 THEN Divide(RSub(p1, p0), RSub(hi, lo)) ELSE Value(<<0, 1>>)

\* the function that x_px() returns, applied to x
x_px(params, x) ==
    LET size == params.size
        xmin == funcx(params, params.xmin)
        xmax == funcx(params, params.xmax)
        ratiox == Ratio(xmin, xmax, size[1], size[3])
    IN  IF ratiox.raised # "none" THEN ratiox
        ELSE Value(RAdd(RMul(RSub(funcx(params, x), xmin), ratiox.val), size[1]))

\* the function that y_px() returns, applied to y
y_px(params, y) ==
    LET size == params.size
        ymin == funcy(params, params.ymin)
        ymax == funcy(params, params.ymax)
        ratioy == Ratio(ymin, ymax, size[2], size[4])
    IN  IF ratioy.raised # "none" THEN ratioy
        ELSE Value(RAdd(RMul(RSub(funcy(params, y), ymin), ratioy.val), size[2]))

\* the outcome of two calls as one: the pair of values, or the first exception
Both(a, b) ==
    IF a.raised # "none" THEN Failed(a.raised)
    ELSE IF b.raised # "none" THEN Failed(b.raised)
    ELSE Value(<<a.val, b.val>>)

\* one step of iterate_points: (x_px(x), y_px(y)) of a point
PointPx(params, point) == Both(x_px(params, point[1]), y_px(params, point[2]))

\* get_px_bounds(): the pixels of xmin, xmax, ymin, ymax
get_px_bounds(params) ==
    Both(Both(x_px(params, params.xmin), x_px(params, params.xmax)),
         Both(y_px(params, params.ymin), y_px(params, params.ymax)))

\* unproject(x, y): no log10, and a division by the ratio
unproject(params, x, y) ==
    LET size == params.size
        xmin == Rational(params.xmin)
        xmax == Rational(params.xmax)
        ratiox == Ratio(xmin, xmax, size[1], size[3])
        ymin == Rational(params.ymin)
        ymax == Rational(params.ymax)
        ratioy == Ratio(ymin, ymax, size[2], size[4])
        x0 == IF ratiox.raised # "none" THEN ratiox ELSE Divide(RSub(x, size[1]), ratiox.val)
        y0 == IF ratioy.raised # "none" THEN ratioy ELSE Divide(RSub(y, size[2]), ratioy.val)
    IN  IF ratiox.raised # "none" THEN ratiox
        ELSE IF ratioy.raised # "none" THEN ratioy
        ELSE IF Both(x0, y0).raised # "none" THEN Both(x0, y0)
        ELSE Value(<<Lin(RAdd(x0.val, xmin)), Lin(RAdd(y0.val, ymin))>>)

\* (faulty variant of ToDataAxis) the log flag is ignored
ToDataAxisLinearOnly(log, dmin, dmax, norm) ==
    Lin(RAdd(RMul(norm, RSub(Rational(dmax), Rational(dmin))), Rational(dmin)))

\* conv_x, conv_y of to_data: the data value at the fraction norm of the axis
ToDataAxis(log, dmin, dmax, norm) ==
    IF log
    THEN Exp10(RAdd(RMul(norm, RSub(Log10Of(dmax), Log10Of(dmin))), Log10Of(dmin)))
    ELSE Lin(RAdd(RMul(norm, RSub(Rational(dmax), Rational(dmin))), Rational(dmin)))

\* Graph.to_data(x, y) of a graph g with the plot area at pos, of size area
to_data(g, pos, area, x, y) ==
    LET norm == Both(Divide(RSub(x, pos[1]), area[1]), Divide(RSub(y, pos[2]), area[2]))
    IN  IF norm.raised # "none" THEN norm
        ELSE Value(<<ToDataAxis(g.xlog, g.xmin, g.xmax, norm.val[1]),
                     ToDataAxis(g.ylog, g.ymin, g.ymax, norm.val[2])>>)

\* the position and the size _redraw_size gives the plot area for the
\* viewport size (x0, y0, x1, y1)
PlotAreaPos(size) == <<size[1], size[2]>>
PlotAreaSize(size) == <<RSub(size[3], size[1]), RSub(size[4], size[2])>>

(***************************************************************************)
(* Graph._update_labels for a graph without axis titles.  g holds the      *)
(* widget's x, y, width, height and padding (integers), per axis the       *)
(* bounds as funclog gives them (xlo, xhi, ylo, yhi) and the major ticks   *)
(* (xpoints, ypoints; rationals), and per tick label the texture size      *)
(* <<w, h>> of its text (xsizes, ysizes; empty when the tick labels are    *)
(* off).  The outcome is [raised, size, x_overlap, y_overlap, xpos, ypos]: *)
(* the returned viewport, whether the x (y) labels end with empty text,    *)
(* and the x of the x labels and the y of the y labels that were placed.   *)
(***************************************************************************)
\* int(r) of a float: truncation towards zero
Truncate(r) == IF r[1] < 0 THEN -((-r[1]) \div r[2]) ELSE r[1] \div r[2]

\* max of the widths of the labels, starting from y1
RECURSIVE MaxWidth(_, _)
MaxWidth(y1, sizes) ==
    IF sizes = <<>> THEN y1
    ELSE MaxWidth(IF sizes[1][1] > y1 THEN sizes[1][1] ELSE y1, Tail(sizes))

\* the texts the n labels of an axis end with: label k shows get_text(k),
\* written k, unless the labels overlap and every text is emptied (0)
Texts(n, overlap) == [k \in 1..n |-> IF overlap THEN 0 ELSE k]

\* lines 548-583: the y tick labels; x_next and y_next as they are before
YTickLabels(g, x_next, y_next) ==
    LET n == Len(g.ysizes)
        h0 == RInt(g.ysizes[1][2])
        pad == RInt(g.padding)
        y_start0 == RAdd(RAdd(y_next, IF Len(g.xsizes) > 0 THEN RAdd(pad, h0) ELSE RInt(0)),
                         IF y_next[1] = 0 THEN RAdd(pad, h0) ELSE RInt(0))
        yextent == RSub(RSub(RInt(g.y + g.height), pad), RDiv(h0, RInt(2)))
        ratio == Divide(RSub(yextent, y_start0), RSub(g.yhi, g.ylo))
        y_start == RSub(y_start0, RDiv(h0, RInt(2)))
        y1 == MaxWidth(g.ysizes[1][1], g.ysizes)
        ypos == [k \in 1..n |->
                    Truncate(RAdd(y_start, RMul(RSub(g.ypoints[k], g.ylo), ratio.val)))]
        y_overlap == n > 1 /\ ypos[1] + g.ysizes[1][2] > ypos[2]
    IN  [ raised |-> ratio.raised, yextent |-> yextent, y_overlap |-> y_overlap,
          ypos |-> IF ratio.raised = "none" THEN ypos ELSE <<>>,
          ytext |-> IF ratio.raised = "none" THEN Texts(n, y_overlap) ELSE <<>>,
          x_next |-> IF y_overlap THEN x_next ELSE RAdd(x_next, RInt(y1 + g.padding)) ]

\* (faulty variant of HalfWidth) the label is not centred on its tick
HalfWidthNone(size) == RInt(0)

\* half_ts: half the width of a label's texture
HalfWidth(size) == RDiv(RInt(size[1]), RInt(2))

\* lines 584-620: the x tick labels; x_next and y_next as they are before
XTickLabels(g, x_next0, y_next) ==
    LET n == Len(g.xsizes)
        pad == RInt(g.padding)
        half(k) == HalfWidth(g.xsizes[k])
        xextent == RSub(RSub(RInt(g.x + g.width), half(n)), pad)
        x_next == IF x_next0[1] = 0 THEN RAdd(pad, half(1)) ELSE x_next0
        ratio == Divide(RSub(xextent, x_next), RSub(g.xhi, g.xlo))
        left == [k \in 1..n |->
                    Truncate(RSub(RAdd(x_next, RMul(RSub(g.xpoints[k], g.xlo), ratio.val)),
                                  half(k)))]
        right(k) == IF k = 0 THEN -1 ELSE left[k] + g.xsizes[k][1]
        stops == {k \in 1..n : left[k] < right(k - 1)}
        placed == IF stops = {} THEN n ELSE CHOOSE k \in stops : \A j \in stops : k <= j
    IN  [ raised |-> ratio.raised, xextent |-> xextent, x_next |-> x_next,
          x_overlap |-> stops # {},
          xpos |-> IF ratio.raised = "none" THEN SubSeq(left, 1, placed) ELSE <<>>,
          xtext |-> IF ratio.raised = "none" THEN Texts(n, stops # {}) ELSE <<>>,
          y_next |-> IF stops # {} THEN y_next
                     ELSE RAdd(y_next, RAdd(pad, RInt(g.xsizes[1][2]))) ]

\* _update_labels()
UpdateLabels(g) ==
    LET x_next0 == RInt(g.padding + g.x)
        y_next0 == RInt(g.padding + g.y)
        yl == IF Len(g.ysizes) > 0 THEN YTickLabels(g, x_next0, y_next0)
              ELSE [raised |-> "none", yextent |-> RInt(g.height + g.y), y_overlap |-> FALSE,
                    ypos |-> <<>>, ytext |-> <<>>, x_next |-> x_next0]
        xl == IF Len(g.xsizes) > 0 /\ yl.raised = "none" THEN XTickLabels(g, yl.x_next, y_next0)
              ELSE [raised |-> yl.raised, xextent |-> RInt(g.width + g.x), x_next |-> yl.x_next,
                    x_overlap |-> FALSE, xpos |-> <<>>, xtext |-> <<>>, y_next |-> y_next0]
    IN  [ raised |-> xl.raised,
          size |-> <<RSub(xl.x_next, RInt(g.x)), RSub(xl.y_next, RInt(g.y)),
                     RSub(xl.xextent, RInt(g.x)), RSub(yl.yextent, RInt(g.y))>>,
          x_overlap |-> xl.x_overlap, y_overlap |-> yl.y_overlap,
          xpos |-> xl.xpos, ypos |-> yl.ypos, xtext |-> xl.xtext, ytext |-> yl.ytext ]

(***************************************************************************)
(* Graph._update_ticks(size) for the graph g: per group of ticks (x major, *)
(* x minor, y major, y minor) one segment <<x0, y0, x1, y1>> per tick, in  *)
(* the coordinates of the viewport size (relative to the widget).  A group *)
(* without ticks is skipped; a group after one that raised is not reached. *)
(***************************************************************************)
\* metrics.dp(12) and metrics.dp(8) at a density of 1
MajorStroke == 12
MinorStroke == 8

\* (faulty variant of XTop) a minor tick follows the grid flag as well
XTopGrid(g, size, major) ==
    IF g.x_grid THEN size[4]
    ELSE RAdd(RInt(IF major THEN MajorStroke ELSE MinorStroke), size[2])

\* lines 677 and 686: where the segment of an x tick ends
XTop(g, size, major) ==
    IF major THEN (IF g.x_grid THEN size[4] ELSE RAdd(RInt(MajorStroke), size[2]))
    ELSE RAdd(RInt(MinorStroke), size[2])

\* lines 695 and 704: where the segment of a y tick ends
YTop(g, size, major) ==
    IF major THEN (IF g.y_grid THEN size[3] ELSE RAdd(RInt(MajorStroke), size[1]))
    ELSE RAdd(RInt(MinorStroke), size[1])

\* lines 676-693: the segments of the x ticks points
XSegments(g, size, points, major) ==
    LET ratio == Divide(RSub(size[3], size[1]), RSub(g.xhi, g.xlo))
        at(k) == RAdd(size[1], RMul(RSub(points[k], g.xlo), ratio.val))
    IN  IF points = <<>> THEN [raised |-> "none", segs |-> <<>>]
        ELSE IF ratio.raised # "none" THEN [raised |-> ratio.raised, segs |-> <<>>]
        ELSE [raised |-> "none",
              segs |-> [k \in 1..Len(points) |-> <<at(k), size[2], at(k), XTop(g, size, major)>>]]

\* lines 694-711: the segments of the y ticks points
YSegments(g, size, points, major) ==
    LET ratio == Divide(RSub(size[4], size[2]), RSub(g.yhi, g.ylo))
        at(k) == RAdd(size[2], RMul(RSub(points[k], g.ylo), ratio.val))
    IN  IF points = <<>> THEN [raised |-> "none", segs |-> <<>>]
        ELSE IF ratio.raised # "none" THEN [raised |-> ratio.raised, segs |-> <<>>]
        ELSE [raised |-> "none",
              segs |-> [k \in 1..Len(points) |-> <<size[1], at(k), YTop(g, size, major), at(k)>>]]

\* the groups that are reached: those before the first one that raised
RECURSIVE Reached(_)
Reached(groups) ==
    IF groups = <<>> THEN <<>>
    ELSE IF Head(groups).raised # "none" THEN <<Head(groups)>>
    ELSE <<Head(groups)>> \o Reached(Tail(groups))

\* the outcome of _update_ticks, of the groups it reached
TicksOf(groups) ==
    LET group(i) == IF i <= Len(groups) THEN groups[i].segs ELSE <<>>
    IN  [ called |-> TRUE, raised |-> groups[Len(groups)].raised,
          xmajor |-> group(1), xminor |-> group(2), ymajor |-> group(3), yminor |-> group(4) ]

\* _update_ticks(size)
UpdateTicks(g, size) ==
    TicksOf(Reached(<< XSegments(g, size, g.xpoints, TRUE),
                       XSegments(g, size, g.xminor, FALSE),
                       YSegments(g, size, g.ypoints, TRUE),
                       YSegments(g, size, g.yminor, FALSE) >>))

\* _update_ticks was not called
NoTicks == [called |-> FALSE, raised |-> "none",
            xmajor |-> <<>>, xminor |-> <<>>, ymajor |-> <<>>, yminor |-> <<>>]

\* _redraw_size() after _update_labels gave out: _update_ticks with the size
\* it returned, unless it raised
RedrawSizeOf(g, out) ==
    [g |-> g, out |-> out,
     ticks |-> IF out.raised = "none" THEN UpdateTicks(g, out.size) ELSE NoTicks]

(***************************************************************************)
(* The meshes of the plots.  A mesh is [vertices, indices]: the length of  *)
(* its vertex list (floats) and its index list, kept as the runs           *)
(* <<start, count>> of consecutive values it consists of.                  *)
(***************************************************************************)
\* len(ind)
RECURSIVE IndLen(_)
IndLen(ind) == IF ind = <<>> THEN 0 ELSE Head(ind)[2] + IndLen(Tail(ind))

\* del ind[k:]
RECURSIVE DelIndices(_, _)
DelIndices(ind, k) ==
    IF ind = <<>> \/ k <= 0 THEN <<>>
    ELSE IF Head(ind)[2] >= k THEN <<<<Head(ind)[1], k>>>>
    ELSE <<Head(ind)>> \o DelIndices(Tail(ind), k - Head(ind)[2])

\* ind.extend(range(len(ind), len(ind) + diff)), diff > 0
ExtendIndices(ind, diff) ==
    LET n == Len(ind)
    IN  IF n > 0 /\ ind[n][1] + ind[n][2] = IndLen(ind)
        THEN [ind EXCEPT ![n] = <<@[1], @[2] + diff>>]
        ELSE Append(ind, <<IndLen(ind), diff>>)

\* Mesh(): no vertices, no indices
NewMesh == [vertices |-> 0, indices |-> <<>>]

\* MeshLinePlot.set_mesh_size(size) on the mesh m
set_mesh_size(m, size) ==
    LET diff == size - m.vertices \div 4
    IN  IF diff < 0
        THEN [vertices |-> 4 * size, indices |-> DelIndices(m.indices, size)]
        ELSE IF diff > 0
        THEN [vertices |-> m.vertices + diff * 4, indices |-> ExtendIndices(m.indices, diff)]
        ELSE m

\* (faulty variant of Capped) every point is drawn
Uncapped(n) == n

\* lines 1780-1784: the number of points BarPlot.draw goes on with, of n
Capped(n) == IF n * 6 > MaxIndices THEN (IF n < MaxBars THEN n ELSE MaxBars) ELSE n

\* BarPlot.draw() of the plot p = [points, dirty, mesh, logged, drawn]:
\* points is the number of points of the plot and dirty tells that they were
\* set since the last draw; logged tells that Logger.error was called and
\* drawn is the number of bars written to the vertices
BarPlotDraw(p) ==
    LET point_len == Capped(p.points)
        diff == point_len * 6 - p.mesh.vertices \div 4
    IN  [ points |-> p.points,
          dirty |-> FALSE,
          logged |-> p.points * 6 > MaxIndices,
          drawn |-> point_len,
          mesh |-> IF diff < 0
                   THEN [vertices |-> 24 * point_len,
                         indices |-> DelIndices(p.mesh.indices, point_len)]
                   ELSE IF diff > 0
                   THEN [vertices |-> p.mesh.vertices + diff * 4,
                         indices |-> ExtendIndices(p.mesh.indices, diff)]
                   ELSE p.mesh ]

(***************************************************************************)
(* The tick generator as a state machine.  args are the five arguments of  *)
(* a _get_ticks call (the graph's tick specs, scale kind and range, which  *)
(* _redraw_x and _redraw_y hand in); res is the outcome of the last call   *)
(* and prev the outcome of the call before it; rel tells how the arguments *)
(* of the last call relate to the ones before.  A behaviour is one call,   *)
(* then a second call with the same or with the reversed range.            *)
(***************************************************************************)
VARIABLES args, res, prev, rel, pc

\* the state of the other parts of the model (see below)
VARIABLES plot, graph, plots, clock, trace, labels, meshes

vars == <<args, res, prev, rel, pc, plot, graph, plots, clock, trace, labels, meshes>>

\* the state of the tick generator, and the rest
ticksVars == <<args, res, prev, rel>>
graphVars == <<graph, plots, clock, trace>>
otherVars == <<plot, graphVars, labels, meshes>>

\* range endpoints handed in with numeric tick specs: on a linear axis, and
\* on a log axis (several decades; the values <= 0 are not valid there)
LinCoords == {Rat(k, 2) : k \in -2..MaxCoord}
LogCoords == LinCoords \cup {<<1, 10>>, <<3, 5>>, <<10, 1>>, <<100, 1>>}

\* numeric major and minor values (minor: a number of subdivisions)
NumMajors == {Rat(k, 2) : k \in -1..MaxMajor}
NumMinors == {RInt(k) : k \in -1..MaxMinor}

\* the values of explicit tick lists, and the range endpoints handed in with them
ListVals == {<<0, 1>>, <<2, 1>>, <<10, 1>>}
ListCoords == {<<0, 1>>, <<1, 1>>, <<10, 1>>}

RECURSIVE SeqsUpTo(_, _)
SeqsUpTo(S, n) ==
    IF n = 0 THEN {<<>>}
    ELSE LET shorter == SeqsUpTo(S, n - 1)
         IN  shorter \cup {Append(t, x) : t \in shorter, x \in S}

TickLists == SeqsUpTo(ListVals, MaxListLen)

Call(major, minor, log, s_min, s_max) ==
    [major |-> major, minor |-> minor, log |-> log, s_min |-> s_min, s_max |-> s_max]

\* the graph of the module's example: x from 0 to 100, x_ticks_major=25,
\* x_ticks_minor=5; and a two-decade log axis with one tick per decade
ExampleArgs ==
    { Call(NumSpec(<<25, 1>>), NumSpec(<<5, 1>>), FALSE, <<0, 1>>, <<100, 1>>),
      Call(NumSpec(<<25, 1>>), NumSpec(<<5, 1>>), FALSE, <<100, 1>>, <<0, 1>>) }

\* the arguments x of a call with a numeric major and a numeric minor
NumericArgs(x) ==
    \/ \E ma \in NumMajors, mi \in NumMinors, a \in LinCoords, b \in LinCoords :
          x = Call(NumSpec(ma), NumSpec(mi), FALSE, a, b)
    \/ \E ma \in NumMajors, mi \in NumMinors, a \in LogCoords, b \in LogCoords :
          x = Call(NumSpec(ma), NumSpec(mi), TRUE, a, b)

\* the arguments x of a call with two explicit lists
ListArgs(x) ==
    \E ma \in TickLists, mi \in TickLists, lg \in BOOLEAN, a \in ListCoords, b \in ListCoords :
        x = Call(ListSpec(ma), ListSpec(mi), lg, a, b)

\* the arguments x of a call with one of major and minor a list, the other a
\* number
MixedArgs(x) ==
    \/ \E ma \in TickLists, mi \in NumMinors, lg \in BOOLEAN, a \in ListCoords, b \in ListCoords :
          x = Call(ListSpec(ma), NumSpec(mi), lg, a, b)
    \/ \E ma \in NumMajors, mi \in TickLists, lg \in BOOLEAN, a \in ListCoords, b \in ListCoords :
          x = Call(NumSpec(ma), ListSpec(mi), lg, a, b)

NoResult == Returned(<<>>, <<>>)

\* the ends (p0, p1) of the viewport along one axis: empty, wide, narrow,
\* and negative (a widget too small for its labels)
Extents == {<<RInt(0), RInt(0)>>, <<RInt(10), RInt(110)>>, <<RInt(15), RInt(75)>>,
            <<RInt(20), RInt(5)>>}

\* range endpoints of a log axis, and values on it (10 ** (k/2))
LogBounds == {Pow10(e) : e \in -1..MaxDecade}
LogValues == {Exp10(Rat(k, 2)) : k \in -2..(2 * MaxDecade)}

AxisCase(log, dmin, dmax, e, v) ==
    [log |-> log, min |-> dmin, max |-> dmax, p0 |-> e[1], p1 |-> e[2], v |-> v]

\* one axis of a plot with a value on it: linear, log
LinAxes == {AxisCase(FALSE, Lin(a), Lin(b), e, Lin(v)) :
                a \in LinCoords, b \in LinCoords, e \in Extents, v \in LinCoords}
LogAxes == {AxisCase(TRUE, Lin(a), Lin(b), e, v) :
                a \in LogBounds, b \in LogBounds, e \in Extents, v \in LogValues}

\* the other axis of the same plot: the default range of a graph, or two
\* decades
OtherAxes ==
    { AxisCase(FALSE, Lin(RInt(0)), Lin(RInt(100)), <<RInt(10), RInt(110)>>, Lin(RInt(25))),
      AxisCase(TRUE, Lin(RInt(1)), Lin(RInt(100)), <<RInt(15), RInt(75)>>, Exp10(Rat(1, 2))) }

NoOutcome == Failed("not called")

\* the plot with x axis ax and y axis ay, before any call
PlotOn(ax, ay) ==
    [ params |-> [xlog |-> ax.log, xmin |-> ax.min, xmax |-> ax.max,
                  ylog |-> ay.log, ymin |-> ay.min, ymax |-> ay.max,
                  size |-> <<ax.p0, ay.p0, ax.p1, ay.p1>>],
      point |-> <<ax.v, ay.v>>,
      px |-> NoOutcome, bounds |-> NoOutcome, data |-> NoOutcome ]

\* Plot.params before the first layout pass
DefaultPlot ==
    PlotOn(AxisCase(FALSE, Lin(RInt(0)), Lin(RInt(100)), <<RInt(0), RInt(0)>>, Zero),
           AxisCase(FALSE, Lin(RInt(0)), Lin(RInt(100)), <<RInt(0), RInt(0)>>, Zero))

(***************************************************************************)
(* The graph, its axis registry, its plots and the Clock.  graph holds the *)
(* Graph's properties (x_axis without its leading None, so that axis i is  *)
(* x_axis[i]; view is the viewport of the last layout pass); plots maps a  *)
(* Plot to its x_axis index and its params; clock holds the triggered      *)
(* events, in the order they were triggered: pending are those of the      *)
(* next frame, running those of the frame being processed.  trace records  *)
(* what ran: the callbacks of the current frame, the last step, whether a  *)
(* bound property changed since the last layout pass, and the outcome of   *)
(* the last add_x_axis / get_x_axis call.                                  *)
(***************************************************************************)
\* the plots of the model, and the values the properties are set to
PlotIds == {"p1"}
PropertyValues == [xmin |-> {0, 1}, x_ticks_major |-> {0, 25}]
Widths == {100, 200}
AxisTriples == {<<FALSE, 0, 10>>, <<TRUE, 1, 100>>}

\* what is passed as axis to get_x_axis: an int, or the dict that the
\* i-th add_x_axis call returned
IntHandle(i) == [kind |-> "int", i |-> i]
DictHandle(i) == [kind |-> "dict", i |-> i]

\* get_x_axis(axis): (log, min, max)
get_x_axis(g, axis) ==
    IF axis.kind = "int" /\ axis.i = 0 THEN Value(<<g.xlog, g.xmin, g.xmax>>)
    ELSE IF axis.kind # "int" THEN Failed("TypeError")
    ELSE IF axis.i > Len(g.x_axis) THEN Failed("IndexError")
    ELSE Value(g.x_axis[axis.i])

\* get_y_axis(0)
get_y_axis(g) == Value(<<g.ylog, g.ymin, g.ymax>>)

\* a ClockEvent: the callback, and the plot whose draw it is ("" for the
\* graph's own callbacks)
Event(cb, p) == [cb |-> cb, plot |-> p]

\* (faulty variant of Trigger) one flag for all events
TriggerWhenIdle(c, e) ==
    IF c.pending # <<>> \/ c.running # <<>> THEN c ELSE [c EXCEPT !.pending = Append(@, e)]

\* a trigger is called: the event is scheduled for the next frame unless it
\* is triggered already
Trigger(c, e) ==
    IF Contains(c.pending, e) \/ Contains(c.running, e) THEN c
    ELSE [c EXCEPT !.pending = Append(@, e)]

\* the trigger a property of the graph is bound to
Binding(prop) ==
    IF prop \in {"xmin", "xmax", "xlog", "x_ticks_major", "x_ticks_minor",
                 "ymin", "ymax", "ylog", "y_ticks_major", "y_ticks_minor"}
    THEN "_redraw_all"
    ELSE IF prop \in {"center", "padding", "precision", "plots", "x_grid", "y_grid",
                      "draw_border"}
    THEN "_redraw_size"
    ELSE "_update_legend"

\* the viewport _update_labels returns when there are no labels
Viewport(g) == <<g.padding, g.padding, g.width, g.height>>

\* the params _update_plots hands to plot pl
ParamsFor(g, pl) ==
    [x |-> get_x_axis(g, IntHandle(pl.x_axis)).val, y |-> get_y_axis(g).val, size |-> g.view]

\* _update_plots: plot._update(...) for every plot of the graph
UpdatePlots(g, ps) ==
    [p \in DOMAIN ps |->
        IF Contains(g.plots, p) THEN [ps[p] EXCEPT !.params = ParamsFor(g, ps[p])] ELSE ps[p]]

\* the params of the plots of g change: ask_draw of each, in list order
RECURSIVE AskDraws(_, _)
AskDraws(c, ids) ==
    IF ids = <<>> THEN c ELSE AskDraws(Trigger(c, Event("draw", Head(ids))), Tail(ids))

\* list.remove(p), canvas.remove(instr), unbind: the first occurrence of p goes
Remove(s, p) ==
    IF ~Contains(s, p) THEN s
    ELSE LET i == CHOOSE k \in 1..Len(s) : s[k] = p /\ \A j \in 1..(k - 1) : s[j] # p
         IN  SubSeq(s, 1, i - 1) \o SubSeq(s, i + 1, Len(s))

DefaultParams == [x |-> <<FALSE, 0, 100>>, y |-> <<FALSE, 0, 100>>, size |-> <<0, 0, 0, 0>>]

\* Graph.__init__ has run: the defaults, and _redraw_all triggered
NewGraph ==
    [ xlog |-> FALSE, xmin |-> 0, xmax |-> 100, x_ticks_major |-> 0,
      ylog |-> FALSE, ymin |-> 0, ymax |-> 100,
      padding |-> 5, width |-> 100, height |-> 100,
      x_axis |-> <<>>, plots |-> <<>>, view |-> <<0, 0, 0, 0>>,
      canvas |-> <<>>, bound |-> <<>>,
      ticks |-> [majorx |-> <<>>, minorx |-> <<>>, majory |-> <<>>, minory |-> <<>>],
      mesh |-> [vertices |-> 0, indices |-> 0] ]
NewPlots == [p \in PlotIds |-> [x_axis |-> 0, params |-> DefaultParams]]
NewClock == [pending |-> <<Event("_redraw_all", "")>>, running |-> <<>>]
NewTrace ==
    [ redraw_all |-> 0, redraw_size |-> 0, last |-> "__init__", plot |-> "",
      dirty |-> TRUE, call |-> [axis |-> IntHandle(0), outcome |-> NoOutcome] ]

\* the state of this part when the model is about another part
GraphAtRest ==
    /\ graph = NewGraph
    /\ plots = NewPlots
    /\ clock = NewClock
    /\ trace = NewTrace

\* the values of x_grid_label and y_grid_label: False, True (or a function
\* of the tick value), or a list of len strings
LabelsOff == [kind |-> "off", len |-> 0]
LabelsOn == [kind |-> "default", len |-> 0]
LabelList(n) == [kind |-> "list", len |-> n]

\* a graph configured with the ranges xr and yr and the major tick lists
\* xt and yt (padding is the default of 5 pixels; no minor ticks, no grid,
\* no tick labels), before its first _redraw_all
ConfiguredGraph(x, width, height, xr, yr, xt, yt) ==
    [ x |-> x, y |-> 0, width |-> width, height |-> height, padding |-> 5,
      xlo |-> xr[1], xhi |-> xr[2], ylo |-> yr[1], yhi |-> yr[2],
      x_ticks_major |-> xt, y_ticks_major |-> yt,
      x_ticks_minor |-> <<>>, y_ticks_minor |-> <<>>,
      x_grid |-> FALSE, y_grid |-> FALSE,
      x_grid_label |-> LabelsOff, y_grid_label |-> LabelsOff,
      xpoints |-> <<>>, ypoints |-> <<>>, xminor |-> <<>>, yminor |-> <<>>,
      xsizes |-> <<>>, ysizes |-> <<>> ]

\* a new graph: the default ranges, no ticks
NewLabels ==
    [ g |-> ConfiguredGraph(0, 100, 100, <<RInt(0), RInt(100)>>, <<RInt(0), RInt(100)>>,
                            <<>>, <<>>),
      out |-> NoOutcome, ticks |-> NoTicks ]

\* the state of this part when the model is about another part
LabelsAtRest == labels = NewLabels

\* a MeshLinePlot and a BarPlot as created, without points
NewMeshes ==
    [ line |-> [points |-> 0, mesh |-> NewMesh],
      bar |-> [points |-> 0, dirty |-> FALSE, logged |-> FALSE, drawn |-> 0,
               mesh |-> NewMesh] ]

\* the state of this part when the model is about another part
MeshesAtRest == meshes = NewMeshes

\* the state of the tick generator when the model is about another part
TicksAtRest ==
    /\ args = Call(NumSpec(<<25, 1>>), NumSpec(<<5, 1>>), FALSE, <<0, 1>>, <<100, 1>>)
    /\ res = NoResult
    /\ prev = NoResult
    /\ rel = "first"

Init ==
    /\ \/ NumericArgs(args)
       \/ ListArgs(args)
       \/ MixedArgs(args)
       \/ args \in ExampleArgs
    /\ res = NoResult
    /\ prev = NoResult
    /\ rel = "first"
    /\ pc = "ready"
    /\ plot = DefaultPlot
    /\ LabelsAtRest
    /\ MeshesAtRest
    /\ GraphAtRest

\* (faulty variant of GetTicksCall) the major list is sorted in place (major.sort())
GetTicksCallSortingInput ==
    /\ pc = "ready"
    /\ res' = GetTicks(args.major, args.minor, args.log, args.s_min, args.s_max)
    /\ prev' = res
    /\ pc' = "done"
    /\ args' = [args EXCEPT !.major.list =
                   LET t == Sorted([i \in 1..Len(@) |-> Lin(@[i])], FALSE)
                   IN  [i \in 1..Len(t) |-> <<t[i][1], t[i][2]>>]]
    /\ UNCHANGED <<rel, otherVars>>

\* a call of _get_ticks with the current arguments: it returns (or raises) and
\* assigns to nothing but its locals
GetTicksCall ==
    /\ pc = "ready"
    /\ res' = GetTicks(args.major, args.minor, args.log, args.s_min, args.s_max)
    /\ prev' = res
    /\ pc' = "done"
    /\ UNCHANGED <<args, rel, otherVars>>

\* the next redraw hands in the same arguments
CallAgain ==
    /\ pc = "done"
    /\ rel = "first"
    /\ rel' = "same"
    /\ pc' = "ready"
    /\ UNCHANGED <<args, res, prev, otherVars>>

\* the axis is reversed (min and max exchanged) before the next redraw
SwapRange ==
    /\ pc = "done"
    /\ rel = "first"
    /\ args' = [args EXCEPT !.s_min = args.s_max, !.s_max = args.s_min]
    /\ rel' = "swapped"
    /\ pc' = "ready"
    /\ UNCHANGED <<res, prev, otherVars>>

Next == GetTicksCall \/ CallAgain \/ SwapRange

Spec == Init /\ [][Next]_vars

(***************************************************************************)
(* The axis transform as a state machine.  plot is a Plot on axis 0 of a   *)
(* graph after a layout pass: params are the params _update_plots handed   *)
(* to it, point is one of its points, px the pixel iterate_points yields   *)
(* for the point, bounds the outcome of get_px_bounds() and data the       *)
(* outcome of converting px back, with unproject or with Graph.to_data.    *)
(***************************************************************************)
InitTransform ==
    /\ \/ \E ax \in LinAxes \cup LogAxes, ay \in OtherAxes : plot = PlotOn(ax, ay)
       \/ \E ax \in OtherAxes, ay \in LinAxes \cup LogAxes : plot = PlotOn(ax, ay)
    /\ pc = "plot"
    /\ TicksAtRest
    /\ GraphAtRest
    /\ LabelsAtRest
    /\ MeshesAtRest

\* iterate_points yields the pixel of the point
IteratePoints ==
    /\ pc = "plot"
    /\ plot' = [plot EXCEPT !.px = PointPx(plot.params, plot.point)]
    /\ pc' = "pixel"
    /\ UNCHANGED <<ticksVars, graphVars, labels, meshes>>

\* get_px_bounds()
GetPxBoundsCall ==
    /\ pc = "plot"
    /\ plot' = [plot EXCEPT !.bounds = get_px_bounds(plot.params)]
    /\ pc' = "bounds"
    /\ UNCHANGED <<ticksVars, graphVars, labels, meshes>>

\* plot.unproject(px, py) of the pixel
UnprojectCall ==
    /\ pc = "pixel"
    /\ plot.px.raised = "none"
    /\ plot' = [plot EXCEPT !.data = unproject(plot.params, plot.px.val[1], plot.px.val[2])]
    /\ pc' = "unprojected"
    /\ UNCHANGED <<ticksVars, graphVars, labels, meshes>>

\* graph.to_data(px, py) of the pixel: the graph's primary axes are the
\* plot's params and its plot area is the viewport they came with
ToDataCall ==
    /\ pc = "pixel"
    /\ plot.px.raised = "none"
    /\ plot' = [plot EXCEPT !.data =
                   to_data(plot.params, PlotAreaPos(plot.params.size),
                           PlotAreaSize(plot.params.size), plot.px.val[1], plot.px.val[2])]
    /\ pc' = "converted"
    /\ UNCHANGED <<ticksVars, graphVars, labels, meshes>>

NextTransform == IteratePoints \/ GetPxBoundsCall \/ UnprojectCall \/ ToDataCall

SpecTransform == InitTransform /\ [][NextTransform]_vars

(***************************************************************************)
(* The graph as a state machine: between two frames properties are set,    *)
(* plots and axes are added, and get_x_axis is called; a frame (ClockTick) *)
(* runs the callbacks of the events triggered before it, one after the     *)
(* other.                                                                  *)
(***************************************************************************)
\* a new graph on which add_x_axis has been called once
InitGraph ==
    /\ graph = [NewGraph EXCEPT !.x_axis = <<<<TRUE, 1, 100>>>>]
    /\ plots = NewPlots
    /\ clock = NewClock
    /\ trace = NewTrace
    /\ pc = "graph"
    /\ TicksAtRest
    /\ plot = DefaultPlot
    /\ LabelsAtRest
    /\ MeshesAtRest

\* the trace after a step between two frames: only the last step and the
\* last call are kept
Traced(step, p, dirty) ==
    [NewTrace EXCEPT !.last = step, !.plot = p, !.dirty = trace.dirty \/ dirty]

\* graph.xmin = v, graph.x_ticks_major = v, graph.padding = v: a property
\* dispatches when its value changes
SetProperty ==
    /\ clock.running = <<>>
    /\ \E prop \in DOMAIN PropertyValues : \E v \in PropertyValues[prop] :
          /\ graph[prop] # v
          /\ graph' = [graph EXCEPT ![prop] = v]
          /\ clock' = Trigger(clock, Event(Binding(prop), ""))
    /\ trace' = Traced("set", "", TRUE)
    /\ UNCHANGED <<plots, plot, pc, ticksVars, labels, meshes>>

\* graph.width = w: the widget's center changes with it
Resize ==
    /\ clock.running = <<>>
    /\ \E w \in Widths :
          /\ graph.width # w
          /\ graph' = [graph EXCEPT !.width = w]
    /\ clock' = Trigger(clock, Event(Binding("center"), ""))
    /\ trace' = Traced("set", "", TRUE)
    /\ UNCHANGED <<plots, plot, pc, ticksVars, labels, meshes>>

\* (faulty variant of AddPlotOf) a plot is added without looking it up
AddPlotTwice(ids) ==
    /\ clock.running = <<>>
    /\ \E p \in ids :
          /\ graph' = [graph EXCEPT !.canvas = Append(@, p), !.bound = Append(@, p),
                                    !.plots = Append(@, p)]
          /\ clock' = Trigger(clock, Event(Binding("plots"), ""))
          /\ trace' = Traced("set", "", TRUE)
    /\ UNCHANGED <<plots, plot, pc, ticksVars, labels, meshes>>

\* graph.add_plot(p) for one of the plots ids: the plot's drawings go to the
\* canvas of the plot area and its on_clear_plot is bound, in graph.canvas
\* and graph.bound
AddPlotOf(ids) ==
    /\ clock.running = <<>>
    /\ \E p \in ids :
          IF Contains(graph.plots, p)
          THEN /\ trace' = Traced("set", "", FALSE)
               /\ UNCHANGED <<graph, clock>>
          ELSE /\ graph' = [graph EXCEPT !.canvas = Append(@, p), !.bound = Append(@, p),
                                         !.plots = Append(@, p)]
               /\ clock' = Trigger(clock, Event(Binding("plots"), ""))
               /\ trace' = Traced("set", "", TRUE)
    /\ UNCHANGED <<plots, plot, pc, ticksVars, labels, meshes>>

\* graph.remove_plot(p) for one of the plots ids
RemovePlotOf(ids) ==
    /\ clock.running = <<>>
    /\ \E p \in ids :
          IF ~Contains(graph.plots, p)
          THEN /\ trace' = Traced("set", "", FALSE)
               /\ UNCHANGED <<graph, clock>>
          ELSE /\ graph' = [graph EXCEPT !.canvas = Remove(@, p), !.bound = Remove(@, p),
                                         !.plots = Remove(@, p)]
               /\ clock' = Trigger(clock, Event(Binding("plots"), ""))
               /\ trace' = Traced("set", "", TRUE)
    /\ UNCHANGED <<plots, plot, pc, ticksVars, labels, meshes>>

AddPlot == AddPlotOf(PlotIds)
RemovePlot == RemovePlotOf(PlotIds)

\* plot.x_axis = i for a registered axis i: bound to nothing
SetPlotAxis ==
    /\ clock.running = <<>>
    /\ \E p \in PlotIds, i \in 0..Len(graph.x_axis) :
          /\ plots[p].x_axis # i
          /\ plots' = [plots EXCEPT ![p].x_axis = i]
          /\ trace' = Traced("set", "", FALSE)
    /\ UNCHANGED <<graph, clock, plot, pc, ticksVars, labels, meshes>>

\* plot.points = [...]: bound to the plot's ask_draw
SetPoints ==
    /\ clock.running = <<>>
    /\ \E p \in PlotIds :
          /\ clock' = Trigger(clock, Event("draw", p))
          /\ trace' = Traced("set", "", FALSE)
    /\ UNCHANGED <<graph, plots, plot, pc, ticksVars, labels, meshes>>

\* graph.add_x_axis(min, max, log): appends the dict and returns it
AddXAxis ==
    /\ clock.running = <<>>
    /\ Len(graph.x_axis) < MaxAxes
    /\ \E t \in AxisTriples :
          /\ graph' = [graph EXCEPT !.x_axis = Append(@, t)]
          /\ trace' = [Traced("add_x_axis", "", FALSE) EXCEPT
                          !.call = [axis |-> DictHandle(Len(graph.x_axis) + 1),
                                    outcome |-> Value(t)]]
    /\ UNCHANGED <<plots, clock, plot, pc, ticksVars, labels, meshes>>

\* graph.get_x_axis(axis), with an index or with what an add_x_axis call
\* returned
GetXAxisCall ==
    /\ clock.running = <<>>
    /\ \E axis \in {IntHandle(i) : i \in 0..Len(graph.x_axis)}
                       \cup {DictHandle(i) : i \in 1..Len(graph.x_axis)} :
          trace' = [Traced("get_x_axis", "", FALSE) EXCEPT
                       !.call = [axis |-> axis, outcome |-> get_x_axis(graph, axis)]]
    /\ UNCHANGED <<graph, plots, clock, plot, pc, ticksVars, labels, meshes>>

\* Clock.tick: the events triggered so far are those of this frame
ClockTick ==
    /\ clock.running = <<>>
    /\ clock.pending # <<>>
    /\ clock' = [pending |-> <<>>, running |-> clock.pending]
    /\ trace' = [trace EXCEPT !.last = "tick", !.plot = "", !.redraw_all = 0,
                              !.redraw_size = 0]
    /\ UNCHANGED <<graph, plots, plot, pc, ticksVars, labels, meshes>>

\* (faulty variant of TickVertices) one vertex of 4 floats per tick
TickVerticesHalf(n_points) == n_points * 4

\* lines 773-774: the lengths of the vertex and the index buffer of the tick
\* mesh for n_points ticks
TickVertices(n_points) == n_points * 8
TickIndices(n_points) == n_points * 2

\* the number of ticks in the four cached lists
NPoints(t) == Len(t.majorx) + Len(t.minorx) + Len(t.majory) + Len(t.minory)

\* lines 760-774: the outcomes x and y of _get_ticks are cached by _redraw_x
\* and _redraw_y, and the buffers of the tick mesh are allocated for them
WithTicks(g0, x, y) ==
    [g0 EXCEPT !.ticks = [majorx |-> x.major, minorx |-> x.minor,
                          majory |-> y.major, minory |-> y.minor],
               !.mesh = [vertices |-> TickVertices(Len(x.major \o x.minor \o y.major \o y.minor)),
                         indices |-> TickIndices(Len(x.major \o x.minor \o y.major \o y.minor))]]

\* what _get_ticks returns for the values x_ticks_major and xmin take, on
\* the linear range up to xmax = 100 and with the default x_ticks_minor = 0
XTicks ==
    [major \in PropertyValues.x_ticks_major |->
        [lo \in PropertyValues.xmin |->
            GetTicks(NumSpec(RInt(major)), NumSpec(RInt(0)), FALSE, RInt(lo), RInt(100))]]

\* _redraw_x and _redraw_y: the y tick specs are the default 0, for which
\* _get_ticks returns no tick
RedrawTicks(g0) ==
    WithTicks(g0, XTicks[g0.x_ticks_major][g0.xmin], Returned(<<>>, <<>>))

\* _redraw_size on the graph g0: the viewport is recomputed and handed to
\* the plots with their axes; each plot's params change, which triggers its
\* ask_draw
Relayout(g0, c) ==
    LET g == [g0 EXCEPT !.view = Viewport(g0)]
    IN  /\ graph' = g
        /\ plots' = UpdatePlots(g, plots)
        /\ clock' = AskDraws(c, g.plots)

\* the event of _trigger runs: _redraw_all, which ends with _redraw_size()
RedrawAll ==
    /\ clock.running # <<>>
    /\ Head(clock.running).cb = "_redraw_all"
    /\ Relayout(RedrawTicks(graph), [clock EXCEPT !.running = Tail(@)])
    /\ trace' = [trace EXCEPT !.last = "_redraw_all", !.plot = "", !.dirty = FALSE,
                              !.redraw_all = @ + 1, !.redraw_size = @ + 1]
    /\ UNCHANGED <<plot, pc, ticksVars, labels, meshes>>

\* the event of _trigger_size runs: _redraw_size
RedrawSize ==
    /\ clock.running # <<>>
    /\ Head(clock.running).cb = "_redraw_size"
    /\ Relayout(graph, [clock EXCEPT !.running = Tail(@)])
    /\ trace' = [trace EXCEPT !.last = "_redraw_size", !.plot = "", !.dirty = FALSE,
                              !.redraw_size = @ + 1]
    /\ UNCHANGED <<plot, pc, ticksVars, labels, meshes>>

\* the event of a plot's ask_draw runs: draw()
Draw ==
    /\ clock.running # <<>>
    /\ Head(clock.running).cb = "draw"
    /\ clock' = [clock EXCEPT !.running = Tail(@)]
    /\ trace' = [trace EXCEPT !.last = "draw", !.plot = Head(clock.running).plot]
    /\ UNCHANGED <<graph, plots, plot, pc, ticksVars, labels, meshes>>

NextGraph ==
    \/ SetProperty \/ Resize \/ AddPlot \/ RemovePlot \/ SetPlotAxis \/ SetPoints
    \/ ClockTick \/ RedrawAll \/ RedrawSize \/ Draw

\* the main loop ticks the Clock every frame, and a frame runs every event
\* it holds
SpecGraph ==
    /\ InitGraph
    /\ [][NextGraph]_vars
    /\ WF_vars(ClockTick)
    /\ WF_vars(RedrawAll)
    /\ WF_vars(RedrawSize)
    /\ WF_vars(Draw)

(***************************************************************************)
(* The axis registry alone: axes are added and looked up, and the primary  *)
(* range is set, on a new graph.                                           *)
(***************************************************************************)
InitAxes ==
    /\ GraphAtRest
    /\ pc = "axes"
    /\ TicksAtRest
    /\ plot = DefaultPlot
    /\ LabelsAtRest
    /\ MeshesAtRest

NextAxes == AddXAxis \/ GetXAxisCall \/ SetProperty

SpecAxes == InitAxes /\ [][NextAxes]_vars

(***************************************************************************)
(* The plot list alone: several plots are added to and removed from a new  *)
(* graph, in any order and any number of times.                            *)
(***************************************************************************)
AllPlots == {"p1", "p2", "p3", "p4", "p5"}

InitPlots ==
    /\ GraphAtRest
    /\ pc = "plots"
    /\ TicksAtRest
    /\ plot = DefaultPlot
    /\ LabelsAtRest
    /\ MeshesAtRest

AddAnyPlot == AddPlotOf(AllPlots)
RemoveAnyPlot == RemovePlotOf(AllPlots)

NextPlots == AddAnyPlot \/ RemoveAnyPlot

SpecPlots == InitPlots /\ [][NextPlots]_vars

(***************************************************************************)
(* The label layout as a state machine.  labels.g is a graph as            *)
(* _redraw_all meets it: first configured (position, size, ranges and      *)
(* explicit major tick lists), then, after _redraw_x and _redraw_y, with   *)
(* its major ticks and one measured label per major tick of an axis whose  *)
(* tick labels are on; labels.out is the outcome of the _update_labels     *)
(* call of the layout pass that follows.                                   *)
(***************************************************************************)
\* the configured ranges and major tick lists, and the texture widths and
\* heights a label's text can measure
LabelRanges == {<<RInt(0), RInt(100)>>, <<RInt(100), RInt(0)>>, <<RInt(5), RInt(5)>>}
LabelTicks == { <<RInt(0)>>, <<RInt(5)>>, <<RInt(0), RInt(50)>>, <<RInt(0), RInt(100)>>,
                <<RInt(0), RInt(90), RInt(100)>> }
TextWidths == {10, 80}
TextHeights == {10, 30}

\* the minor tick lists, next to none
MinorList == <<RInt(5), RInt(25)>>

\* a graph with a grid or minor ticks, away from the window's origin
WithGrid(g, y, x_grid, y_grid, minor) ==
    [g EXCEPT !.y = y, !.x_grid = x_grid, !.y_grid = y_grid,
              !.x_ticks_minor = minor, !.y_ticks_minor = minor]

InitLabels ==
    /\ \/ \E x \in {0, 50}, width \in {60, 200}, height \in {40, 200},
             xr \in LabelRanges, yr \in LabelRanges, xt \in LabelTicks, yt \in LabelTicks :
             labels = [g |-> ConfiguredGraph(x, width, height, xr, yr, xt, yt),
                       out |-> NoOutcome, ticks |-> NoTicks]
       \/ \E width \in {60, 200}, xr \in LabelRanges, yr \in LabelRanges, t \in LabelTicks,
             x_grid \in BOOLEAN, y_grid \in BOOLEAN, minor \in {<<>>, MinorList} :
             labels = [g |-> WithGrid(ConfiguredGraph(50, width, 200, xr, yr, t, t),
                                      20, x_grid, y_grid, minor),
                       out |-> NoOutcome, ticks |-> NoTicks]
    /\ pc = "configured"
    /\ TicksAtRest
    /\ GraphAtRest
    /\ plot = DefaultPlot
    /\ MeshesAtRest

\* the values of the ticks t
Rationals(t) == [k \in 1..Len(t) |-> Rational(t[k])]

\* the major ticks _get_ticks returns for the list major on the range r
MajorTicks(major, r) ==
    Rationals(GetTicks(ListSpec(major), ListSpec(<<>>), FALSE, r[1], r[2]).major)

\* the minor ticks _get_ticks returns for the lists major and minor on r
MinorTicks(major, minor, r) ==
    Rationals(GetTicks(ListSpec(major), ListSpec(minor), FALSE, r[1], r[2]).minor)

\* (faulty variant of NLabels) a label per major tick whatever the list holds
NLabelsPerTick(grid_label, n_points) == IF grid_label.kind = "off" THEN 0 ELSE n_points

\* lines 801-806 and 846-851: the number of tick labels of an axis with
\* n_points major ticks
NLabels(grid_label, n_points) ==
    IF grid_label.kind = "off" THEN 0
    ELSE IF grid_label.kind = "list"
    THEN (IF n_points < grid_label.len THEN n_points ELSE grid_label.len)
    ELSE n_points

\* the values x_grid_label and y_grid_label take
LabelSpecs == {LabelsOff, LabelsOn, LabelList(1)}

\* n labels, each measuring one of the widths ws and one of the heights hs
Measured(n, ws, hs) == {[k \in 1..n |-> <<w[k], h[k]>>] : w \in [1..n -> ws], h \in [1..n -> hs]}

\* _redraw_x and _redraw_y: the ticks of each axis and its tick labels, as
\* many as x_grid_label (y_grid_label) and the major ticks give.  The x
\* labels measure any widths, the y labels any one height.
RedrawXY ==
    /\ pc = "configured"
    /\ \E x_grid_label \in LabelSpecs, y_grid_label \in LabelSpecs :
       \E xpoints \in {MajorTicks(labels.g.x_ticks_major, <<labels.g.xlo, labels.g.xhi>>)},
          ypoints \in {MajorTicks(labels.g.y_ticks_major, <<labels.g.ylo, labels.g.yhi>>)},
          xminor \in {MinorTicks(labels.g.x_ticks_major, labels.g.x_ticks_minor,
                                 <<labels.g.xlo, labels.g.xhi>>)},
          yminor \in {MinorTicks(labels.g.y_ticks_major, labels.g.y_ticks_minor,
                                 <<labels.g.ylo, labels.g.yhi>>)} :
       \E xsizes \in Measured(NLabels(x_grid_label, Len(xpoints)), TextWidths, {10}),
          yh \in TextHeights :
       \E ysizes \in Measured(NLabels(y_grid_label, Len(ypoints)), {20}, {yh}) :
          labels' = [labels EXCEPT !.g.x_grid_label = x_grid_label,
                                   !.g.y_grid_label = y_grid_label,
                                   !.g.xpoints = xpoints, !.g.ypoints = ypoints,
                                   !.g.xminor = xminor, !.g.yminor = yminor,
                                   !.g.xsizes = xsizes, !.g.ysizes = ysizes]
    /\ pc' = "ticks"
    /\ UNCHANGED <<ticksVars, graphVars, plot, meshes>>

\* the layout pass that follows: _redraw_size calls _update_labels and, with
\* the size it returns, _update_ticks
UpdateLabelsCall ==
    /\ pc = "ticks"
    /\ \E out \in {UpdateLabels(labels.g)} : labels' = RedrawSizeOf(labels.g, out)
    /\ pc' = "laid out"
    /\ UNCHANGED <<ticksVars, graphVars, plot, meshes>>

NextLabels == RedrawXY \/ UpdateLabelsCall

SpecLabels == InitLabels /\ [][NextLabels]_vars

(***************************************************************************)
(* The plot meshes as a state machine: a MeshLinePlot and a BarPlot get    *)
(* new points and are drawn, again and again, with more and with fewer     *)
(* points than before.                                                     *)
(***************************************************************************)
\* the numbers of points of a plot
PointCounts == 0..MaxPoints \cup {MaxBars, MaxBars + 1}

InitMeshes ==
    /\ MeshesAtRest
    /\ pc = "meshes"
    /\ TicksAtRest
    /\ GraphAtRest
    /\ plot = DefaultPlot
    /\ LabelsAtRest

\* line.points = [...] of n points, then MeshLinePlot.draw: plot_mesh sizes
\* the mesh for the points
PlotMesh ==
    /\ \E n \in PointCounts :
          meshes' = [meshes EXCEPT !.line = [points |-> n, mesh |-> set_mesh_size(@.mesh, n)]]
    /\ UNCHANGED <<ticksVars, graphVars, plot, pc, labels>>

\* bar.points = [...] of n points
SetBarPoints ==
    /\ \E n \in PointCounts :
          /\ n # meshes.bar.points
          /\ meshes' = [meshes EXCEPT !.bar.points = n, !.bar.dirty = TRUE]
    /\ UNCHANGED <<ticksVars, graphVars, plot, pc, labels>>

\* BarPlot.draw()
BarDraw ==
    /\ meshes' = [meshes EXCEPT !.bar = BarPlotDraw(@)]
    /\ UNCHANGED <<ticksVars, graphVars, plot, pc, labels>>

NextMeshes == PlotMesh \/ SetBarPoints \/ BarDraw

SpecMeshes == InitMeshes /\ [][NextMeshes]_vars

(***************************************************************************)
(* Properties of the tick generator.                                       *)
(***************************************************************************)
\* the rational a linear tick value stands for
ValRat(v) == <<v[1], v[2]>>

\* |s_max - s_min| of the current arguments
RangeLen == RAbs(RSub(args.s_max, args.s_min))

\* a call with a numeric major > 0 on a linear axis has returned or raised
NumericLinearDone ==
    /\ pc = "done"
    /\ ~args.log
    /\ ~args.major.isList
    /\ args.major.num[1] > 0

\* the distances between consecutive elements of s are all d
EvenlySpaced(s, d) ==
    \A i \in 1..(Len(s) - 1) : RAbs(RSub(ValRat(s[i + 1]), ValRat(s[i]))) = d

\* C1: for every linear range and numeric major > 0, _get_ticks returns
\* exactly floor(|max - min| / major) + 1 major ticks, and consecutive major
\* ticks are exactly major apart.
C1_MajorCountAndSpacing ==
    NumericLinearDone =>
        /\ res.raised = "none"
        /\ Len(res.major) = RFloor(RDiv(RangeLen, args.major.num)) + 1
        /\ EvenlySpaced(res.major, args.major.num)

\* C2: for a degenerate linear range (min = max) and numeric major > 0,
\* _get_ticks returns exactly one major tick, at min, and no minor tick.
C2_DegenerateOneTick ==
    (NumericLinearDone /\ args.s_min = args.s_max) =>
        /\ res.raised = "none"
        /\ res.major = <<Lin(args.s_min)>>
        /\ res.minor = <<>>

\* the sequence s back to front
Reverse(s) == [i \in 1..Len(s) |-> s[Len(s) + 1 - i]]

\* the second call had the first call's range with min and max exchanged, and
\* both calls returned
SwappedDone ==
    /\ pc = "done"
    /\ rel = "swapped"
    /\ res.raised = "none"
    /\ prev.raised = "none"

\* the second call returned the first call's lists back to front
ReversedResult == res.major = Reverse(prev.major) /\ res.minor = Reverse(prev.minor)

\* C3 (as claimed): for any tick spec and range, the call with min and max
\* swapped returns, for both lists, the same positions in reversed order.
C3_SwapReverses == SwappedDone => ReversedResult

\* q is an integer multiple of d (d > 0)
IsMultiple(q, d) == RDiv(q, d)[2] = 1

\* C3 (amended): for explicit tick lists, and for a numeric major > 0 on a
\* linear axis whose |max - min| is an integer multiple of major, the call
\* with min and max swapped returns both lists in reversed order.
C3_SwapReversesListsAndWholeRanges ==
    (/\ SwappedDone
     /\ \/ args.major.isList
        \/ /\ ~args.log
           /\ args.major.num[1] > 0
           /\ IsMultiple(RangeLen, args.major.num))
    => ReversedResult

\* witness of C3: a reversed call with explicit lists that returned two major
\* ticks and a minor tick
C3_Witness ==
    /\ SwappedDone
    /\ args.major.isList
    /\ Len(res.major) = 2
    /\ res.major[1] # res.major[2]
    /\ Len(res.minor) >= 1

\* s is ascending (descending when desc), by value
IsOrdered(s, desc) ==
    \A i \in 1..(Len(s) - 1) :
        IF desc THEN ~VLt(s[i], s[i + 1]) ELSE ~VLt(s[i + 1], s[i])

\* C4: in every mode both returned lists are sorted ascending when
\* min <= max and descending when min > max, whatever the input order.
C4_SortedByDirection ==
    (pc = "done" /\ res.raised = "none") =>
        /\ IsOrdered(res.major, RLt(args.s_max, args.s_min))
        /\ IsOrdered(res.minor, RLt(args.s_max, args.s_min))

\* witness of C4: an explicit major list given in descending order on an
\* ascending range, both of its values returned
C4_Witness ==
    /\ pc = "done"
    /\ res.raised = "none"
    /\ args.major.isList
    /\ RLe(args.s_min, args.s_max)
    /\ Len(args.major.list) = 2
    /\ RLt(args.major.list[2], args.major.list[1])
    /\ Len(res.major) = 2

\* the values of a sequence
Range(s) == {s[i] : i \in 1..Len(s)}

\* p lies between a and b, whichever is the larger
Between(p, a, b) ==
    \/ p[1] * a[2] >= a[1] * p[2] /\ p[1] * b[2] <= b[1] * p[2]
    \/ p[1] * a[2] <= a[1] * p[2] /\ p[1] * b[2] >= b[1] * p[2]

\* a call with two explicit lists on a linear axis is done
ExplicitLinearDone ==
    /\ pc = "done"
    /\ args.major.isList
    /\ args.minor.isList
    /\ ~args.log

\* C5: with explicit major and minor lists on a linear axis, every returned
\* tick is an element of its input list and lies within [min, max] (either
\* direction), every in-range major input is returned, and no returned minor
\* tick equals a returned major tick.
C5_ExplicitListsFiltered ==
    ExplicitLinearDone =>
        /\ res.raised = "none"
        /\ \A v \in Range(res.major) :
              /\ ValRat(v) \in Range(args.major.list)
              /\ Between(ValRat(v), args.s_min, args.s_max)
        /\ \A v \in Range(res.minor) :
              /\ ValRat(v) \in Range(args.minor.list)
              /\ Between(ValRat(v), args.s_min, args.s_max)
        /\ \A p \in Range(args.major.list) :
              Between(p, args.s_min, args.s_max) => Lin(p) \in Range(res.major)
        /\ Range(res.minor) \cap Range(res.major) = {}

\* witness of C5: a major input out of range was dropped, a minor input equal
\* to a returned major tick was dropped, and another minor tick was returned
C5_Witness ==
    /\ ExplicitLinearDone
    /\ \E p \in Range(args.major.list) : Lin(p) \notin Range(res.major)
    /\ \E p \in Range(args.minor.list) : Lin(p) \in Range(res.major)
    /\ res.major # <<>>
    /\ res.minor # <<>>

\* a call with a numeric major > 0 and an integer minor >= 1 on a linear axis
SubdividedLinearDone ==
    /\ NumericLinearDone
    /\ ~args.minor.isList
    /\ args.minor.num[1] >= 1

\* all returned ticks, in the direction of the axis
AllTicks == Sorted(res.major \o res.minor, RLt(args.s_max, args.s_min))

\* the number of minor ticks strictly between the values v and w
MinorsBetween(v, w) ==
    Cardinality({x \in Range(res.minor) : (VLt(v, x) /\ VLt(x, w)) \/ (VLt(w, x) /\ VLt(x, v))})

\* the tick values k * 5 for the k of S
FivesOf(S) == {<<5 * k, 1, 0>> : k \in S}

\* the example graph: x from 0 to 100, x_ticks_major = 25, x_ticks_minor = 5
ExampleCall == Call(NumSpec(<<25, 1>>), NumSpec(<<5, 1>>), FALSE, <<0, 1>>, <<100, 1>>)

\* C6: with a numeric major and an integer minor >= 1 on a linear axis the
\* ticks are major/minor apart starting at min, and exactly minor - 1 minor
\* ticks lie strictly between two consecutive major ticks; for min = 0,
\* max = 100, major = 25, minor = 5 the majors are 0, 25, 50, 75, 100 and the
\* minors the 16 other multiples of 5.
C6_MinorSubdivision ==
    SubdividedLinearDone =>
        /\ res.raised = "none"
        /\ args.s_min # args.s_max =>
              (AllTicks # <<>> /\ AllTicks[1] = Lin(args.s_min))
        /\ EvenlySpaced(AllTicks, RDiv(args.major.num, args.minor.num))
        /\ \A i \in 1..(Len(res.major) - 1) :
              MinorsBetween(res.major[i], res.major[i + 1]) = args.minor.num[1] - 1
        /\ args = ExampleCall =>
              /\ res.major = <<<<0, 1, 0>>, <<25, 1, 0>>, <<50, 1, 0>>, <<75, 1, 0>>,
                               <<100, 1, 0>>>>
              /\ Len(res.minor) = 16
              /\ Range(res.minor) = FivesOf((1..19) \ {5, 10, 15})

\* witness of C6: the example call has returned its 5 major and 16 minor ticks
C6_Witness ==
    /\ pc = "done"
    /\ args = ExampleCall
    /\ Len(res.major) = 5
    /\ Len(res.minor) = 16

\* C7: a numeric major <= 0 gives an empty major and an empty minor list,
\* for every range, scale kind and minor value, and nothing is raised.
C7_NonPositiveMajorNoTicks ==
    (pc = "done" /\ ~args.major.isList /\ args.major.num[1] <= 0) =>
        res = Returned(<<>>, <<>>)

\* witness of C7: a major <= 0 with a list minor on a log axis whose range is
\* not positive
C7_Witness ==
    /\ pc = "done"
    /\ ~args.major.isList
    /\ args.major.num[1] <= 0
    /\ args.log
    /\ args.s_min[1] <= 0
    /\ args.minor.isList
    /\ args.minor.list # <<>>
    /\ res.raised = "none"

\* exactly one of major and minor is a list, and the call is done
MixedDone == pc = "done" /\ args.major.isList # args.minor.isList

\* a log axis has a positive range (the caller's obligation)
ValidRange == args.log => (args.s_min[1] > 0 /\ args.s_max[1] > 0)

\* the call with the same major and no minor: an empty list or the number 0
WithoutMinor ==
    GetTicks(args.major,
             IF args.major.isList THEN ListSpec(<<>>) ELSE NumSpec(<<0, 1>>),
             args.log, args.s_min, args.s_max)

C9_TwoDecadeMajors ==
    (pc = "done" /\ args = Call(NumSpec(<<1, 1>>), NumSpec(<<1, 1>>), TRUE,
                                <<1, 1>>, <<100, 1>>)) =>
        /\ res.raised = "none"
        /\ res.major = <<<<0, 1, 0>>, <<1, 1, 0>>, <<2, 1, 0>>>>

NumericDone(n) ==
    /\ pc = "done"
    /\ ~args.major.isList
    /\ args.major.num[1] > 0
    /\ ~args.minor.isList
    /\ args.minor.num = RInt(n)

\* the outcome of the call with the same arguments but minor = 1, where
\* every generated tick is major
Undivided == GetTicks(args.major, NumSpec(RInt(1)), args.log, args.s_min, args.s_max)

BothNumericDone ==
    /\ pc = "done"
    /\ ~args.major.isList
    /\ args.major.num[1] > 0
    /\ ~args.minor.isList

AxisF(log, v) == IF log THEN Log10Of(v) ELSE Rational(v)

NonDegenerate(log, dmin, dmax) == AxisF(log, dmax) # AxisF(log, dmin)
NonDegenerateX(p) == NonDegenerate(p.xlog, p.xmin, p.xmax)
NonDegenerateY(p) == NonDegenerate(p.ylog, p.ymin, p.ymax)

\* (f(v) - f(dmin)) * (pmax - pmin) / (f(dmax) - f(dmin)) + pmin
FormulaPx(log, dmin, dmax, pmin, pmax, v) ==
    RAdd(RDiv(RMul(RSub(AxisF(log, v), AxisF(log, dmin)), RSub(pmax, pmin)),
              RSub(AxisF(log, dmax), AxisF(log, dmin))),
         pmin)

\* v lies between dmin and dmax, in either direction
Within(log, dmin, dmax, v) ==
    \/ RLe(AxisF(log, dmin), AxisF(log, v)) /\ RLe(AxisF(log, v), AxisF(log, dmax))
    \/ RLe(AxisF(log, dmax), AxisF(log, v)) /\ RLe(AxisF(log, v), AxisF(log, dmin))

\* v lies strictly between dmin and dmax
StrictlyWithin(log, dmin, dmax, v) ==
    /\ Within(log, dmin, dmax, v)
    /\ AxisF(log, v) # AxisF(log, dmin)
    /\ AxisF(log, v) # AxisF(log, dmax)

\* C11: on a non-degenerate axis the function x_px() (y_px()) returns maps v
\* to (f(v) - f(dmin)) * (pmax - pmin) / (f(dmax) - f(dmin)) + pmin, with
\* f = log10 on a log axis and the identity otherwise; so get_px_bounds()
\* gives pmin for dmin and pmax for dmax, on reversed axes too.
C11_PixelFormula ==
    LET p == plot.params
        s == p.size
    IN  /\ pc = "pixel" =>
            /\ plot.px.raised = "none"
            /\ NonDegenerateX(p) =>
                 plot.px.val[1] = FormulaPx(p.xlog, p.xmin, p.xmax, s[1], s[3], plot.point[1])
            /\ NonDegenerateY(p) =>
                 plot.px.val[2] = FormulaPx(p.ylog, p.ymin, p.ymax, s[2], s[4], plot.point[2])
        /\ pc = "bounds" =>
            /\ plot.bounds.raised = "none"
            /\ NonDegenerateX(p) => plot.bounds.val[1] = <<s[1], s[3]>>
            /\ NonDegenerateY(p) => plot.bounds.val[2] = <<s[2], s[4]>>

\* a point strictly inside a reversed log x axis has been mapped to a pixel
\* strictly inside the viewport
C11_Witness ==
    LET p == plot.params
        s == p.size
    IN  /\ pc = "pixel"
        /\ p.xlog
        /\ RLt(Rational(p.xmax), Rational(p.xmin))
        /\ StrictlyWithin(TRUE, p.xmin, p.xmax, plot.point[1])
        /\ plot.point[1][3] = 2
        /\ RLt(s[1], plot.px.val[1])
        /\ RLt(plot.px.val[1], s[3])

\* C12: when f(dmax) = f(dmin) the ratio is 0: x_px() and y_px() map every
\* value to the pixel pmin, and nothing is divided by zero.
C12_DegenerateConstantPixel ==
    LET p == plot.params
        s == p.size
    IN  pc = "pixel" =>
            /\ plot.px.raised = "none"
            /\ ~NonDegenerateX(p) => plot.px.val[1] = s[1]
            /\ ~NonDegenerateY(p) => plot.px.val[2] = s[2]

\* a value other than the bound of a degenerate log x axis has been mapped
\* to pmin, in a viewport that has some width
C12_Witness ==
    LET p == plot.params
        s == p.size
    IN  /\ pc = "pixel"
        /\ p.xlog
        /\ ~NonDegenerateX(p)
        /\ plot.point[1] # p.xmin
        /\ s[1] # s[3]
        /\ plot.px = Value(<<s[1], plot.px.val[2]>>)

\* both axes of the plot are non-degenerate and the point lies within them
ValidInRange(q) ==
    LET p == q.params
    IN  /\ NonDegenerateX(p)
        /\ NonDegenerateY(p)
        /\ Within(p.xlog, p.xmin, p.xmax, q.point[1])
        /\ Within(p.ylog, p.ymin, p.ymax, q.point[2])

\* the viewport has a width and a height
ViewportNotEmpty(p) == p.size[1] # p.size[3] /\ p.size[2] # p.size[4]

\* the value at the same fraction of the axis as v, the fraction taken in
\* transformed space and applied to max - min
LinearInterpolation(log, dmin, dmax, v) ==
    Lin(RAdd(Rational(dmin),
             RMul(RDiv(RSub(AxisF(log, v), AxisF(log, dmin)),
                       RSub(AxisF(log, dmax), AxisF(log, dmin))),
                  RSub(Rational(dmax), Rational(dmin)))))

\* C13 (as stated): for every valid non-degenerate axis, linear or log, and
\* every v in [min, max], the inverse transform (Graph.to_data, or
\* Plot.unproject) of the pixel of v returns v (in a viewport that is not
\* empty).
C13_RoundTrip ==
    (/\ pc \in {"unprojected", "converted"}
     /\ ValidInRange(plot)
     /\ ViewportNotEmpty(plot.params)) =>
        plot.data = Value(plot.point)

\* C13 (amended): in a viewport that is not empty and on non-degenerate
\* axes, Graph.to_data returns v from the pixel of v on linear and on log
\* axes; Plot.unproject returns v on a linear axis, and on a log axis the
\* linear interpolation between min and max.
C13_RoundTripWhereDefined ==
    LET p == plot.params
    IN  (NonDegenerateX(p) /\ NonDegenerateY(p) /\ ViewportNotEmpty(p)) =>
            /\ pc = "converted" => plot.data = Value(plot.point)
            /\ pc = "unprojected" =>
                /\ plot.data.raised = "none"
                /\ plot.data.val[1] =
                       LinearInterpolation(p.xlog, p.xmin, p.xmax, plot.point[1])
                /\ plot.data.val[2] =
                       LinearInterpolation(p.ylog, p.ymin, p.ymax, plot.point[2])
                /\ ~p.xlog => plot.data.val[1] = plot.point[1]
                /\ ~p.ylog => plot.data.val[2] = plot.point[2]

\* Graph.to_data has returned a point strictly inside a log x axis from its
\* pixel
C13_Witness ==
    LET p == plot.params
    IN  /\ pc = "converted"
        /\ p.xlog
        /\ ViewportNotEmpty(p)
        /\ StrictlyWithin(TRUE, p.xmin, p.xmax, plot.point[1])
        /\ plot.point[1][3] = 2
        /\ plot.data = Value(plot.point)

(***************************************************************************)
(* Properties of the axis registry and of the coalesced redraws.           *)
(***************************************************************************)
\* C14: get_x_axis called with what the add_x_axis call of a secondary axis
\* returned gives the (log, min, max) registered by that call, and
\* get_x_axis(0) gives the graph's primary (xlog, xmin, xmax).
C14_HandleLookup ==
    trace.last = "get_x_axis" =>
        LET axis == trace.call.axis
        IN  /\ axis = IntHandle(0) =>
                 trace.call.outcome = Value(<<graph.xlog, graph.xmin, graph.xmax>>)
            /\ axis.kind = "dict" =>
                 trace.call.outcome = Value(graph.x_axis[axis.i])

\* C15: whatever properties were set between two frames, the next frame
\* makes one recomputation pass: _redraw_all (the tick generation) runs at
\* most once in it and _redraw_size runs at most once in it.
C15_SinglePassPerTick == trace.redraw_all <= 1 /\ trace.redraw_size <= 1

\* a relayout (_redraw_all or _redraw_size) is among the events
RelayoutIn(events) ==
    \E k \in 1..Len(events) : events[k].cb \in {"_redraw_all", "_redraw_size"}

\* the viewport and the params of the plots of the graph are those of the
\* graph's current properties
LayoutCurrent ==
    /\ graph.view = Viewport(graph)
    /\ \A k \in 1..Len(graph.plots) :
          plots[graph.plots[k]].params = ParamsFor(graph, plots[graph.plots[k]])

C17_DrawSeesCurrentParams ==
    (trace.last = "draw" /\ Contains(graph.plots, trace.plot)) =>
        plots[trace.plot].params = ParamsFor(graph, plots[trace.plot])

\* the elements of the sequence s, and s without repetition
Elements(s) == {s[i] : i \in 1..Len(s)}
NoDuplicates(s) == \A i, j \in 1..Len(s) : s[i] = s[j] => i = j

\* graph.plots has no duplicates, and the canvas of the plot area holds the
\* drawings of exactly the plots in the list, once each, and on_clear_plot
\* of exactly those plots is bound, once each
PlotListConsistent ==
    /\ NoDuplicates(graph.plots)
    /\ NoDuplicates(graph.canvas)
    /\ NoDuplicates(graph.bound)
    /\ Elements(graph.canvas) = Elements(graph.plots)
    /\ Elements(graph.bound) = Elements(graph.plots)

\* C24: after any sequence of add_plot and remove_plot calls, graph.plots
\* has no duplicates and the canvas and the on_clear_plot bindings are those
\* of exactly the plots in the list; add_plot of a plot in the list and
\* remove_plot of a plot not in it change nothing.
C24_PlotListConsistent ==
    /\ []PlotListConsistent
    /\ [][\A p \in AllPlots :
             /\ (AddPlotOf({p}) /\ Contains(graph.plots, p)) => graph' = graph
             /\ (RemovePlotOf({p}) /\ ~Contains(graph.plots, p)) => graph' = graph]_vars

\* witness of C24: three plots are in the list, in another order than they
\* were first added, after one of them was removed and added again
C24_Witness ==
    /\ pc = "plots"
    /\ graph.plots = <<"p2", "p3", "p1">>
    /\ graph.canvas = graph.plots
    /\ graph.bound = graph.plots

\* _update_ticks has just run, in _redraw_all or in _redraw_size alone
UpdateTicksRan == trace.last \in {"_redraw_all", "_redraw_size"}

\* C22: whenever _update_ticks runs, the vertex buffer of the tick mesh
\* holds exactly 8 floats and its index buffer exactly 2 indices per tick of
\* the current major and minor x and y tick lists, so the highest vertex
\* write, at 8 * (n - 1) + 5, is in bounds.
C22_TickMeshSized ==
    UpdateTicksRan =>
        /\ graph.mesh.vertices = 8 * NPoints(graph.ticks)
        /\ graph.mesh.indices = 2 * NPoints(graph.ticks)
        /\ NPoints(graph.ticks) > 0 => 8 * (NPoints(graph.ticks) - 1) + 5 < graph.mesh.vertices

\* witness of C22: _redraw_size ran alone, on the four ticks that an
\* earlier _redraw_all left, while the tick spec has changed since
C22_Witness ==
    /\ trace.last = "_redraw_size"
    /\ trace.redraw_all = 0
    /\ NPoints(graph.ticks) = 4
    /\ graph.mesh.vertices = 32
    /\ graph.x_ticks_major = 0

(***************************************************************************)
(* Properties of the plot meshes.                                          *)
(***************************************************************************)
\* the index list 0..n-1
Range0(n) == IF n = 0 THEN <<>> ELSE <<<<0, n>>>>

\* the BarPlot was drawn with the points it has, too many for one mesh
TooManyBarsDrawn ==
    /\ meshes.bar.points * 6 > 65535
    /\ ~meshes.bar.dirty

\* C23: when BarPlot.draw is given more points than one draw call indexes
\* (6 indices per bar exceeding 65535), it reports an error through the
\* logger, draws only the first 10922 points with at most 65535 indices,
\* and leaves the points property unchanged.
C23_BarCap ==
    /\ [](TooManyBarsDrawn =>
            /\ meshes.bar.logged
            /\ meshes.bar.drawn = 10922
            /\ meshes.bar.mesh.vertices = 24 * 10922
            /\ IndLen(meshes.bar.mesh.indices) <= 65535)
    /\ [][BarDraw => meshes'.bar.points = meshes.bar.points]_vars

\* witness of C23: 10923 points were drawn as 10922 bars
C23_Witness ==
    /\ meshes.bar.points = 10923
    /\ ~meshes.bar.dirty
    /\ meshes.bar.logged
    /\ meshes.bar.drawn = 10922
    /\ IndLen(meshes.bar.mesh.indices) = 65532

\* the BarPlot has been drawn with the points it has, few enough for one
\* mesh
BarsDrawn == ~meshes.bar.dirty /\ meshes.bar.points * 6 <= 65535

\* C28: after any sequence of draws in which the number of points grows and
\* shrinks, set_mesh_size(n) leaves 4n floats and the indices 0..n-1, and
\* BarPlot.draw with n points leaves 24n floats and the indices 0..6n-1.
C28_MeshIndicesConsistent ==
    /\ meshes.line.mesh = [vertices |-> 4 * meshes.line.points,
                           indices |-> Range0(meshes.line.points)]
    /\ BarsDrawn => meshes.bar.mesh = [vertices |-> 24 * meshes.bar.points,
                                       indices |-> Range0(6 * meshes.bar.points)]

(***************************************************************************)
(* Properties of the label layout.                                         *)
(***************************************************************************)
\* a layout pass with x (y) tick labels shown has returned
XLabelsLaidOut == pc = "laid out" /\ labels.out.raised = "none" /\ Len(labels.g.xsizes) > 0
YLabelsLaidOut == pc = "laid out" /\ labels.out.raised = "none" /\ Len(labels.g.ysizes) > 0

\* among the x labels the pass placed, one starts left of the right edge of
\* the label before it
XPairOverlaps ==
    \E k \in 2..Len(labels.out.xpos) :
        labels.out.xpos[k] < labels.out.xpos[k - 1] + labels.g.xsizes[k - 1][1]

\* C18: in a layout pass with x tick labels shown, all x tick labels end
\* with empty text exactly when some label's left edge is less than the
\* right edge of the label before it.
C18_XBlankedIffPairOverlaps ==
    XLabelsLaidOut => (labels.out.x_overlap <=> XPairOverlaps)

\* the pixel of the k-th major x tick in the viewport the pass returned
XTickPx(k) ==
    LET x_next == RAdd(labels.out.size[1], RInt(labels.g.x))
        xextent == RAdd(labels.out.size[3], RInt(labels.g.x))
    IN  RAdd(x_next, RMul(RSub(labels.g.xpoints[k], labels.g.xlo),
                          RDiv(RSub(xextent, x_next), RSub(labels.g.xhi, labels.g.xlo))))

\* exactly two x tick labels were laid out
TwoXLabels == XLabelsLaidOut /\ Len(labels.g.xsizes) = 2

\* the distance between the pixels of the two ticks, and the sum of the
\* widths of their labels
XSpan == RSub(XTickPx(2), XTickPx(1))
XWidths == labels.g.xsizes[1][1] + labels.g.xsizes[2][1]

\* C19 (as stated): two tick labels whose widths sum to more than the span
\* between the first and the last tick position are both blanked.
C19_WidthsOverSpanBlanked ==
    (TwoXLabels /\ RLt(XSpan, RInt(XWidths))) => labels.out.x_overlap

\* C19 (amended): the labels are centred on their ticks, so two x tick
\* labels are both blanked when half the sum of their widths exceeds the
\* distance between the two tick pixels by 2 pixels or more.
C19_HalfWidthsOverSpanBlanked ==
    (TwoXLabels /\ RLe(RAdd(XSpan, RInt(2)), RDiv(RInt(XWidths), RInt(2))))
        => labels.out.x_overlap

\* two labels too wide for the distance of their ticks, the first of them
\* inside the widget, were blanked
C19_Witness ==
    /\ TwoXLabels
    /\ RLe(RAdd(XSpan, RInt(2)), RDiv(RInt(XWidths), RInt(2)))
    /\ labels.out.xpos[1] >= labels.g.x
    /\ labels.out.x_overlap

\* two consecutive y labels overlap: the top of one is above the bottom of
\* the next
YPairOverlaps ==
    \E k \in 1..(Len(labels.out.ypos) - 1) :
        labels.out.ypos[k] + labels.g.ysizes[k][2] > labels.out.ypos[k + 1]

\* the viewport starts at the padding: no room was reserved for y labels
NoLeftInset == labels.out.size[1] = RInt(labels.g.padding)

\* C20: in a layout pass with y tick labels shown, if any two consecutive
\* y tick labels overlap vertically, every y tick label is blanked and the
\* left inset for the tick labels is not reserved.
C20_YPairOverlapBlanksAll ==
    (YLabelsLaidOut /\ YPairOverlaps) => (labels.out.y_overlap /\ NoLeftInset)

(***************************************************************************)
(* Degenerate ranges, tick labels per major tick and the tick geometry,    *)
(* on the label layout machine.                                            *)
(***************************************************************************)
\* the layout pass ran, on a graph whose x or y range is degenerate and
\* whose tick list holds the one value of that range
LaidOut == pc = "laid out"
DegenerateWithTick ==
    \/ labels.g.xlo = labels.g.xhi /\ (Len(labels.g.xpoints) > 0 \/ Len(labels.g.xminor) > 0)
    \/ labels.g.ylo = labels.g.yhi /\ (Len(labels.g.ypoints) > 0 \/ Len(labels.g.yminor) > 0)

\* C21: with a degenerate linear range (min = max) on either axis and a
\* tick list that holds that value, the layout pass (label layout, then
\* tick geometry) completes without raising.
C21_DegenerateRangeCompletes ==
    (LaidOut /\ DegenerateWithTick)
        => (labels.out.raised = "none" /\ labels.ticks.called /\ labels.ticks.raised = "none")

\* the layout pass completed: labels and ticks
Completed ==
    LaidOut /\ labels.out.raised = "none" /\ labels.ticks.called /\ labels.ticks.raised = "none"

\* the params _update_plots hands a plot of the main axes after the pass
LayoutParams ==
    [ xlog |-> FALSE, xmin |-> Lin(labels.g.xlo), xmax |-> Lin(labels.g.xhi),
      ylog |-> FALSE, ymin |-> Lin(labels.g.ylo), ymax |-> Lin(labels.g.yhi),
      size |-> labels.out.size ]

\* x label k is centred on the pixel of major x tick k, and y label k sits
\* where line 579 puts it for major y tick k
XLabelAtTick(k) ==
    labels.out.xpos[k] = Truncate(RSub(XTickPx(k), HalfWidth(labels.g.xsizes[k])))

\* the widgets of the tick labels after _redraw_x and _redraw_y
Redrawn == pc \in {"ticks", "laid out"}

Least(a, b) == IF a < b THEN a ELSE b

\* the number of labels a tick label value gives n major ticks
LabelCount(grid_label, n) ==
    CASE grid_label.kind = "off" -> 0
      [] grid_label.kind = "default" -> n
      [] grid_label.kind = "list" -> Least(n, grid_label.len)

YTickRow(k) == RAdd(RInt(labels.g.y), labels.ticks.ymajor[k][2])

\* the row of the middle of y label k
YLabelMiddle(k) ==
    RAdd(RInt(labels.out.ypos[k]), RDiv(RInt(labels.g.ysizes[k][2]), RInt(2)))

\* C26: after a layout pass with y tick labels shown, every y tick label
\* is vertically centred, up to integer truncation, on the tick mark or
\* grid line _update_ticks emits for its tick, also when x tick labels
\* are shown, blanked or of a different height.
C26_YLabelsOnTicks ==
    (Completed /\ Len(labels.g.ysizes) > 0) =>
        \A k \in 1..Len(labels.out.ypos) :
            RLt(RAbs(RSub(YLabelMiddle(k), YTickRow(k))), RInt(1))

\* the segment seg starts on the bottom edge at the pixel x_px gives the
\* tick p and goes straight up to the row top
XSegmentOk(seg, p, top) ==
    /\ seg[1] = x_px(LayoutParams, Lin(p)).val
    /\ seg[2] = labels.out.size[2]
    /\ seg[3] = seg[1]
    /\ seg[4] = top

\* the segment seg starts on the left edge at the pixel y_px gives the tick
\* p and goes straight right to the column top
YSegmentOk(seg, p, top) ==
    /\ seg[1] = labels.out.size[1]
    /\ seg[2] = y_px(LayoutParams, Lin(p)).val
    /\ seg[3] = top
    /\ seg[4] = seg[2]

\* one segment per tick of each group
SegmentPerTick ==
    /\ Len(labels.ticks.xmajor) = Len(labels.g.xpoints)
    /\ Len(labels.ticks.xminor) = Len(labels.g.xminor)
    /\ Len(labels.ticks.ymajor) = Len(labels.g.ypoints)
    /\ Len(labels.ticks.yminor) = Len(labels.g.yminor)

\* where the segment of a tick ends: the opposite edge far, or a stroke of
\* the given length from the edge near
End(grid, far, near, stroke) == IF grid THEN far ELSE RAdd(RInt(stroke), near)

====
